---- MODULE Spec2Model ----
(***************************************************************************)
(* HTS code classifier: confidence normalisation, primary / fallback       *)
(* routing (single classification and batch rows), the LLM fallback        *)
(* analyzer and the duty calculator.                                       *)
(*                                                                         *)
(* Texts are sequences of one-character strings.  Numbers that Python      *)
(* holds as floats are kept as exact decimals [m, e] = m / 10^e (canonical:*)
(* no trailing zero in the fraction), so that sums and products of money   *)
(* and rates are exact.                                                    *)
(***************************************************************************)
EXTENDS Integers, Sequences, FiniteSets, TLC

VARIABLES page, confIn, normOut, rateIn, rateOut,
          enable_fallback, classification_history, request,
          calcCfg, calculation_history, dutyOut, invoice,
          table, batchCfg, idx, pc, cur, results, progressLog, upload,
          df, mapPc, validated, standardized, summary

normVars   == <<confIn, normOut, rateIn, rateOut>>
singleVars == <<enable_fallback, classification_history, request>>
dutyVars   == <<calcCfg, calculation_history, dutyOut, invoice>>
batchVars  == <<table, batchCfg, idx, pc, cur, results, progressLog, upload, summary>>
mapVars    == <<df, mapPc, validated, standardized>>
vars       == <<page, confIn, normOut, rateIn, rateOut, enable_fallback, classification_history, request,
                calcCfg, calculation_history, dutyOut, invoice,
                table, batchCfg, idx, pc, cur, results, progressLog, upload,
                df, mapPc, validated, standardized, summary>>

(***************************************************************************)
(* Bounds of the model                                                     *)
(***************************************************************************)
\* longest confidence text enumerated character by character
MaxConfLen == 3
\* longest duty-rate text enumerated character by character
MaxRateLen == 3
\* number of classifications kept in the single-classification history
MaxHistory == 1
\* number of rows of an uploaded table
MaxRows == 2
\* number of calculator calls kept in the calculation history
MaxCalcs == 2
\* number of columns of a raw table handed to the schema mapping
MaxCols == 2
\* number of rows of a raw table handed to the schema mapping
MapRows == 2

(***************************************************************************)
(* Text helpers (Python str methods)                                       *)
(***************************************************************************)
Digits == <<"0", "1", "2", "3", "4", "5", "6", "7", "8", "9">>

IsDigit(c) == \E i \in 1..10 : Digits[i] = c

DigitVal(c) == (CHOOSE i \in 1..10 : Digits[i] = c) - 1

RECURSIVE Pow10(_)
Pow10(k) == IF k = 0 THEN 1 ELSE 10 * Pow10(k - 1)

RECURSIVE lstrip(_)
lstrip(s) == IF Len(s) > 0 /\ s[1] = " " THEN lstrip(Tail(s)) ELSE s

RECURSIVE rstrip(_)
rstrip(s) == IF Len(s) > 0 /\ s[Len(s)] = " " THEN rstrip(SubSeq(s, 1, Len(s) - 1)) ELSE s

\* str.strip()
strip(s) == rstrip(lstrip(s))

\* str.endswith("%")
endswith_pct(s) == Len(s) > 0 /\ s[Len(s)] = "%"

\* str.replace('%', '')
replace_pct(s) == SelectSeq(s, LAMBDA c : c # "%")

\* s[:-1]
drop_last(s) == IF Len(s) = 0 THEN s ELSE SubSeq(s, 1, Len(s) - 1)

\* s.upper() on the letters the code texts use
UpperChar(c) ==
    CASE c = "a" -> "A" [] c = "e" -> "E" [] c = "n" -> "N" [] c = "o" -> "O"
      [] c = "r" -> "R" [] OTHER -> c

upper(s) == [i \in 1..Len(s) |-> UpperChar(s[i])]

RECURSIVE IntText(_)
IntText(n) == IF n < 10 THEN <<Digits[n + 1]>> ELSE IntText(n \div 10) \o <<Digits[(n % 10) + 1]>>

(***************************************************************************)
(* Exact decimals                                                          *)
(***************************************************************************)
RECURSIVE Canon(_)
Canon(d) == IF d.e > 0 /\ d.m % 10 = 0 THEN Canon([m |-> d.m \div 10, e |-> d.e - 1]) ELSE d

Dec(m, e) == Canon([m |-> m, e |-> e])

Whole(n) == [m |-> n, e |-> 0]

\* a < b, a <= b on decimals
DLt(a, b) == a.m * Pow10(b.e) < b.m * Pow10(a.e)
DLe(a, b) == a.m * Pow10(b.e) <= b.m * Pow10(a.e)

\* n *= 100.0
Times100(d) == Dec(d.m * 100, d.e)

\* max(0.0, min(100.0, n))
Clamp0to100(d) == IF DLt(d, Whole(0)) THEN Whole(0) ELSE IF DLt(Whole(100), d) THEN Whole(100) ELSE d

Abs(n) == IF n < 0 THEN -n ELSE n

\* the integer that format(n, ".0f") prints for |n| (round half to even)
RoundHalfEven(d) ==
    LET p == Pow10(d.e)
        a == Abs(d.m)
        q == a \div p
        r == a % p
    IN  IF 2 * r > p THEN q + 1
        ELSE IF 2 * r < p THEN q
        ELSE IF q % 2 = 0 THEN q ELSE q + 1

\* f"{n:.0f}%"  (a negative n keeps its sign, also when it rounds to zero)
FormatPct0(d) ==
    (IF d.m < 0 THEN <<"-">> ELSE <<>>) \o IntText(RoundHalfEven(d)) \o <<"%">>

(***************************************************************************)
(* float(s) for the decimal literals: optional blanks, optional sign,      *)
(* digits with at most one point and at least one digit.  Any other text   *)
(* over the alphabets of this model raises ValueError (ok = FALSE); the     *)
(* spellings with an exponent, an underscore, "inf" or "nan" are not       *)
(* among the texts of the model.                                           *)
(***************************************************************************)
RECURSIVE DigitsValue(_)
DigitsValue(s) == IF Len(s) = 0 THEN 0 ELSE 10 * DigitsValue(drop_last(s)) + DigitVal(s[Len(s)])

PointsIn(s) == Len(SelectSeq(s, LAMBDA c : c = "."))

\* the digits and the point of a literal whose sign is already taken off
float_parts(body, neg, dig, pts) ==
    IF Len(dig) >= 1 /\ pts <= 1 /\ Len(dig) + pts = Len(body)
    THEN [ok |-> TRUE,
          n |-> Dec((IF neg THEN -1 ELSE 1) * DigitsValue(dig),
                    IF pts = 0 THEN 0
                    ELSE Len(body) - (CHOOSE i \in 1..Len(body) : body[i] = ".")),
          neg |-> neg]
    ELSE [ok |-> FALSE, n |-> Whole(0), neg |-> FALSE]

float_body(body, neg) == float_parts(body, neg, SelectSeq(body, IsDigit), PointsIn(body))

float_signed(s) ==
    float_body(IF Len(s) > 0 /\ s[1] \in {"-", "+"} THEN Tail(s) ELSE s,
               Len(s) > 0 /\ s[1] = "-")

pyfloat(text) == float_signed(strip(text))

(***************************************************************************)
(* Python values that can sit in a "confidence" field                      *)
(***************************************************************************)
Str(t)  == [kind |-> "str", text |-> t]
Num(t)  == [kind |-> "num", text |-> t]
PyNone  == [kind |-> "none", text |-> <<>>]
Absent  == [kind |-> "absent", text |-> <<>>]

\* str(x)
str(x) == IF x.kind = "none" THEN <<"N", "o", "n", "e">> ELSE x.text

(***************************************************************************)
(* The three confidence normalizers                                        *)
(***************************************************************************)
MinusOne == Whole(-1)

\* s = s[:-1] if s.endswith("%") else s
strip_one_pct(s) == IF endswith_pct(s) THEN drop_last(s) ELSE s

\* if 0.0 <= n <= 1.0: n *= 100.0
rescale(n) == IF DLe(Whole(0), n) /\ DLe(n, Whole(1)) THEN Times100(n) ELSE n

\* app.py _float_conf, after float(s)
float_conf_result(f) == IF f.ok THEN Clamp0to100(rescale(f.n)) ELSE MinusOne

\* app.py _float_conf
_float_conf(x) == float_conf_result(pyfloat(strip_one_pct(strip(str(x)))))

\* enhanced_batch_processor.py _parse_confidence, after float(s)
parse_confidence_result(f) == IF f.ok THEN Clamp0to100(rescale(f.n)) ELSE Whole(0)

\* enhanced_batch_processor.py _parse_confidence
_parse_confidence(x) == parse_confidence_result(pyfloat(replace_pct(strip(str(x)))))

\* fallback_analyzer.py _to_pct, after float(): only a value that did not end
\* in "%" is rescaled
to_pct_result(f, had_pct) ==
    IF f.ok THEN FormatPct0(Clamp0to100(IF had_pct THEN f.n ELSE rescale(f.n)))
    ELSE <<"0", "%">>

to_pct_text(s) == to_pct_result(pyfloat(strip_one_pct(s)), endswith_pct(s))

\* fallback_analyzer.py _to_pct
_to_pct(x) == to_pct_text(strip(str(x)))

(***************************************************************************)
(* Inputs: confidence values, codes, failure messages                      *)
(***************************************************************************)
T40pct  == <<"4", "0", "%">>
T60pct  == <<"6", "0", "%">>
T85pct  == <<"8", "5", "%">>
T87pct  == <<"8", "7", "%">>
T150pct == <<"1", "5", "0", "%">>
T09pct  == <<"0", ".", "9", "%">>
Tpct60  == <<"%", "6", "0">>
Tneg5   == <<"-", "5">>
T796    == <<"7", "9", ".", "6">>
Tabc    == <<"a", "b", "c">>
T087    == <<"0", ".", "8", "7">>
T87     == <<"8", "7">>
T1pct   == <<"1", "%">>
T0pct   == <<"0", "%">>

ConfChars == {"0", "1", "7", "8", ".", "%", "-", " ", "a"}

AllTexts(n) == UNION {[1..k -> ConfChars] : k \in 0..n}

ExampleTexts == {T40pct, T60pct, T85pct, T87pct, T150pct, T09pct, Tpct60, Tneg5,
                 T796, Tabc, T087, T87, T1pct}

ConfTexts == AllTexts(MaxConfLen) \cup ExampleTexts

\* repr() of a Python int or float: no blanks, no "+", a digit at both ends,
\* no superfluous zero
IsNumRepr(t) ==
    LET body == IF Len(t) > 0 /\ t[1] = "-" THEN Tail(t) ELSE t
        pts  == PointsIn(body)
        pos  == IF pts = 0 THEN Len(body) + 1 ELSE CHOOSE i \in 1..Len(body) : body[i] = "."
    IN  /\ Len(body) > 0
        /\ \A i \in 1..Len(body) : IsDigit(body[i]) \/ body[i] = "."
        /\ pts <= 1
        /\ IsDigit(body[1]) /\ IsDigit(body[Len(body)])
        /\ (body[1] = "0" => pos = 2)
        /\ (pts = 1 /\ body[Len(body)] = "0" => pos = Len(body) - 1)

\* every value a classifier can put in the confidence field
ConfValues ==
    {Str(t) : t \in ConfTexts} \cup {Num(t) : t \in {u \in ConfTexts : IsNumRepr(u)}}
        \cup {PyNone}

CodeHTS   == <<"6", "1", "0", "9">>
CodeHTS2  == <<"9", "4", "0", "3">>
CodeNA    == <<"N", "/", "A">>
CodeError == <<"E", "r", "r", "o", "r">>
CodeERROR == <<"E", "R", "R", "O", "R">>
NoText    == <<>>

T55pct    == <<"5", ".", "5", "%">>
Rate55    == Str(T55pct)
RateNA    == Str(CodeNA)
\* a duty rate that is a JSON number, not a text
RateNumber == Num(<<"5", ".", "5">>)

ErrQuota   == "429 quota exceeded"
ErrSearch  == "vector search unavailable"
ErrNoJson  == "No JSON object found in model response."
ErrBadJson == "Expecting property name enclosed in double quotes"
ErrAttr    == "object has no attribute 'replace'"
ErrValue   == "could not convert string to float"
ErrLower   == "object has no attribute 'lower'"

(***************************************************************************)
(* Result dictionaries and call returns                                    *)
(***************************************************************************)
\* a classification dict; absent keys: confidence = Absent, has_code = FALSE,
\* has_review = FALSE
Dict(src, st, hasCode, code, conf, duty, why, hasRev, rev) ==
    [source |-> src, status |-> st, has_code |-> hasCode, recommended_code |-> code,
     confidence |-> conf, duty_rate |-> duty, reasoning |-> why,
     has_review |-> hasRev, needs_review |-> rev]

NoDict == Dict("none", "none", FALSE, NoText, Absent, Absent, <<>>, FALSE, FALSE)

Return(d) == [raised |-> FALSE, err |-> "", val |-> d]
Raise(msg) == [raised |-> TRUE, err |-> msg, val |-> NoDict]
NotCalled == [raised |-> FALSE, err |-> "not called", val |-> NoDict]

(***************************************************************************)
(* Primary classifier                                                      *)
(***************************************************************************)
\* config/settings.py CONFIDENCE_THRESHOLD (default 0.80), times 100
CONFIDENCE_THRESHOLD == 80

\* gemini_classifier.py GeminiClassifier.classify_product: the model's JSON,
\* or the error dict when the call or the JSON parse fails
gemini_classify_product(g) ==
    IF g.kind = "model_error"
    THEN Dict("primary", "ok", TRUE, CodeError, Str(T0pct), RateNA,
              <<"Classification failed: ", g.msg>>, FALSE, FALSE)
    ELSE Dict("primary", "ok", g.has_code, g.code, g.confidence, g.duty_rate,
              <<"model reasoning">>, FALSE, FALSE)

\* hs_code_agent.py lines 96-98: the review flag of a primary result
primary_needs_review(confidence_value) ==
    DLt(confidence_value, Whole(CONFIDENCE_THRESHOLD))

\* hs_code_agent.py line 97: float(conf.replace('%', '')) and line 98
flag_for_review(r, conf, f) ==
    IF conf.kind # "str" THEN Raise(ErrAttr)
    ELSE IF ~f.ok THEN Raise(ErrValue)
    ELSE Return([r EXCEPT !.has_review = TRUE, !.needs_review = primary_needs_review(f.n)])

\* classification_result.get('confidence', '0%')
confidence_or_0pct(r) == IF r.confidence = Absent THEN Str(T0pct) ELSE r.confidence

\* hs_code_agent.py lines 96-100
review_step(r, conf) == flag_for_review(r, conf, pyfloat(replace_pct(conf.text)))

\* hs_code_agent.py lines 76-100
classify_with_gemini(r) == review_step(r, confidence_or_0pct(r))

\* hs_code_agent.py HSCodeAgent.classify_product
classify_product(product_info, g) ==
    IF product_info.product_name = "" \/ product_info.description = ""
    THEN Return(Dict("primary", "needs_clarification", FALSE, NoText, Absent, Absent,
                     <<"Please provide: ">>, FALSE, FALSE))
    ELSE IF g.kind = "search_error" THEN Raise(g.msg)
    ELSE classify_with_gemini(gemini_classify_product(g))

(***************************************************************************)
(* Fallback analyzer                                                       *)
(***************************************************************************)
\* fallback_analyzer.py _extract_first_json: the parsed object, or the error
extract_first_json(resp) ==
    IF resp.kind = "no_json" THEN [ok |-> FALSE, err |-> ErrNoJson]
    ELSE IF resp.kind = "bad_json" THEN [ok |-> FALSE, err |-> ErrBadJson]
    ELSE [ok |-> TRUE, err |-> ""]

\* a failure handler that lets the error through
FallbackFailed_reraise(msg) == Raise(msg)

\* fallback_analyzer.py lines 117-128: the except branch
FallbackFailed(msg) ==
    Return(Dict("fallback", "failed", TRUE, CodeNA, Str(T0pct), RateNA,
                <<"LLM fallback failed: ", msg>>, TRUE, TRUE))

\* fallback_analyzer.py line 103: the review flag of a fallback result
fallback_needs_review(conf_num, code) ==
    DLt(conf_num, Whole(80)) \/ code \in {NoText, CodeNA}

\* fallback_analyzer.py lines 99-102: conf_num
conf_num_of(cnum) == IF cnum.ok THEN cnum.n ELSE Whole(0)

\* fallback_analyzer.py lines 99-115
fallback_result(code, conf, duty) ==
    Return(Dict("fallback", "ok", TRUE, code, Str(conf), duty, <<"model reasoning">>, TRUE,
                fallback_needs_review(conf_num_of(pyfloat(replace_pct(conf))), code)))

\* str(value).strip() or "N/A"
text_or_NA(t) == IF t = NoText THEN CodeNA ELSE t

\* fallback_analyzer.py lines 92-94
fallback_fields(resp) ==
    fallback_result(text_or_NA(IF resp.has_code THEN strip(resp.code) ELSE NoText),
                    _to_pct(IF resp.confidence = Absent THEN Num(<<"0">>) ELSE resp.confidence),
                    Str(text_or_NA(IF resp.duty_rate = Absent THEN CodeNA
                                   ELSE strip(str(resp.duty_rate)))))

\* fallback_analyzer.py lines 90-115
fallback_parsed(resp, j) == IF ~j.ok THEN FallbackFailed(j.err) ELSE fallback_fields(resp)

\* fallback_analyzer.py FallbackAnalyzer.analyze_unknown_product
analyze_unknown_product(product_info, resp) ==
    IF resp.kind = "raise" THEN FallbackFailed(resp.msg)
    ELSE fallback_parsed(resp, extract_first_json(resp))

(***************************************************************************)
(* Inputs of the classification paths                                      *)
(***************************************************************************)
PrimaryConfs == {Str(T40pct), Str(T60pct), Str(T85pct), Str(T150pct), Str(T09pct),
                 Str(Tpct60), Str(Tneg5), Str(T796), Str(Tabc), Str(T087), Num(T087),
                 Absent}

PrimaryCodes == {[has |-> TRUE, code |-> CodeHTS], [has |-> TRUE, code |-> CodeNA],
                 [has |-> TRUE, code |-> CodeERROR], [has |-> FALSE, code |-> NoText]}

GeminiJson(c, conf, duty) ==
    [kind |-> "json", msg |-> "", has_code |-> c.has, code |-> c.code,
     confidence |-> conf, duty_rate |-> duty]

GeminiOutcomes ==
    {[kind |-> "search_error", msg |-> ErrSearch, has_code |-> FALSE, code |-> NoText,
      confidence |-> Absent, duty_rate |-> Absent],
     [kind |-> "model_error", msg |-> ErrQuota, has_code |-> FALSE, code |-> NoText,
      confidence |-> Absent, duty_rate |-> Absent]}
    \cup {GeminiJson(c, conf, Rate55) : c \in PrimaryCodes, conf \in PrimaryConfs}

FallbackConfs == {Num(<<"8", "5">>), Num(<<"0", ".", "6">>), Num(<<"4", "0">>),
                  Str(<<"1", "5", "0">>), Str(T1pct), Absent}

FallbackJson(hasCode, code, conf) ==
    [kind |-> "json", msg |-> "", has_code |-> hasCode, code |-> code,
     confidence |-> conf, duty_rate |-> Rate55]

FallbackResponses ==
    {[kind |-> "raise", msg |-> ErrQuota, has_code |-> FALSE, code |-> NoText,
      confidence |-> Absent, duty_rate |-> Absent],
     [kind |-> "no_json", msg |-> "", has_code |-> FALSE, code |-> NoText,
      confidence |-> Absent, duty_rate |-> Absent],
     [kind |-> "bad_json", msg |-> "", has_code |-> FALSE, code |-> NoText,
      confidence |-> Absent, duty_rate |-> Absent]}
    \cup {FallbackJson(TRUE, CodeHTS2, conf) : conf \in FallbackConfs}
    \cup {FallbackJson(FALSE, NoText, conf) : conf \in FallbackConfs}

ProductNames == {"", "Cotton T-Shirt"}
Descriptions == {"", "crew neck, short sleeves"}

(***************************************************************************)
(* Initial values of the parts a specification leaves alone                *)
(***************************************************************************)
NoOut == [done |-> FALSE, float_conf |-> MinusOne, parse_confidence |-> MinusOne,
          to_pct |-> NoText]

NoResponse == [kind |-> "none", msg |-> "", has_code |-> FALSE, code |-> NoText,
               confidence |-> Absent, duty_rate |-> Absent]

NoRequest == [outcome |-> "none", enabled |-> FALSE, primary |-> NotCalled,
              conf_val |-> MinusOne, missing_or_low |-> FALSE, fallback_calls |-> 0,
              response |-> NoResponse, fallback |-> NotCalled,
              result |-> NoDict, error |-> <<>>]

NoRateOut == [done |-> FALSE, raised |-> FALSE, rate |-> Whole(0)]

RateIdle   == rateIn = PyNone /\ rateOut = NoRateOut
NormIdle   == confIn = PyNone /\ normOut = NoOut /\ RateIdle
SingleIdle == enable_fallback = TRUE /\ classification_history = <<>> /\ request = NoRequest

(***************************************************************************)
(* Confidence normalizers applied to one input                             *)
(***************************************************************************)
Normalize ==
    /\ ~normOut.done
    /\ normOut' = [done |-> TRUE, float_conf |-> _float_conf(confIn),
                   parse_confidence |-> _parse_confidence(confIn),
                   to_pct |-> _to_pct(confIn)]
    /\ UNCHANGED <<page, mapVars, confIn, rateIn, rateOut, singleVars, dutyVars, batchVars>>

(***************************************************************************)
(* Single classification: app.py show_classifier_page, "Classify Product"  *)
(***************************************************************************)
\* the codes that count as missing, app.py line 417
MissingCodes == {NoText, CodeNA, CodeERROR}

\* str(result.get('recommended_code', '')).strip().upper()
rec_code_of(result) ==
    upper(strip(IF result.has_code THEN result.recommended_code ELSE NoText))

\* routing that uses the review threshold instead of the routing threshold
missing_or_low_review_threshold(result, conf_val) ==
    rec_code_of(result) \in {NoText, CodeNA, CodeERROR} \/ DLt(conf_val, Whole(80))

\* app.py lines 414-417: missing_or_low of a primary result
missing_or_low(result, conf_val) ==
    rec_code_of(result) \in MissingCodes \/ DLt(conf_val, Whole(50))

\* app.py lines 426-429: f"{float(result['confidence']):.0f}%", or "0%"
reformatted(confidence, f) ==
    IF f.ok /\ confidence.kind # "none" THEN Str(FormatPct0(f.n)) ELSE Str(T0pct)

\* app.py lines 423-429: the confidence text stored with the result
stored_confidence(result, conf_val) ==
    IF result.confidence = Absent
    THEN Str(FormatPct0(IF DLt(conf_val, Whole(0)) THEN Whole(0) ELSE conf_val))
    ELSE IF ~endswith_pct(str(result.confidence))
    THEN reformatted(result.confidence, pyfloat(str(result.confidence)))
    ELSE result.confidence

\* app.py lines 423-433: the request whose result is stored
click_stored(enabled, p, conf_val, mol, calls, resp, fb, result) ==
    [outcome |-> "stored", enabled |-> enabled, primary |-> p, conf_val |-> conf_val,
     missing_or_low |-> mol, fallback_calls |-> calls, response |-> resp, fallback |-> fb,
     result |-> [result EXCEPT !.confidence = stored_confidence(result, conf_val)],
     error |-> <<>>]

\* app.py lines 421-444: after the fallback returned or raised
click_fallback(enabled, p, conf_val, mol, resp, fb) ==
    IF fb.raised
    THEN [NoRequest EXCEPT !.outcome = "error_shown", !.enabled = enabled,
                           !.primary = p, !.conf_val = conf_val,
                           !.missing_or_low = mol, !.fallback_calls = 1,
                           !.response = resp, !.fallback = fb,
                           !.error = <<"Classification error: ", fb.err>>]
    ELSE click_stored(enabled, p, conf_val, mol, 1, resp, fb, fb.val)

\* app.py lines 419-421: the routing decision
click_route(product_info, enabled, p, conf_val, mol, resp) ==
    IF enabled /\ mol
    THEN click_fallback(enabled, p, conf_val, mol, resp,
                        analyze_unknown_product(product_info, resp))
    ELSE click_stored(enabled, p, conf_val, mol, 0, NoResponse, NotCalled, p.val)

\* app.py lines 414-417
click_normalized(product_info, enabled, p, conf_val, resp) ==
    click_route(product_info, enabled, p, conf_val, missing_or_low(p.val, conf_val), resp)

\* app.py lines 401-444: after the primary classifier returned or raised
click_primary(product_info, enabled, p, resp) ==
    IF p.raised
    THEN [NoRequest EXCEPT !.outcome = "error_shown", !.enabled = enabled,
                           !.primary = p,
                           !.error = <<"Classification error: ", p.err>>]
    ELSE click_normalized(product_info, enabled, p,
                          _float_conf(IF p.val.confidence = Absent THEN Num(<<"-", "1">>)
                                      ELSE p.val.confidence),
                          resp)

\* app.py lines 393-401
click_classify(product_info, enabled, g, resp) ==
    click_primary(product_info, enabled, classify_product(product_info, g), resp)

\* the whole handler, as the trace of one request
classify_click(product_name, description, enabled, g, resp) ==
    IF product_name = "" \/ description = ""
    THEN [NoRequest EXCEPT !.outcome = "input_error", !.enabled = enabled,
                           !.error = <<"Please enter at least Product Name and Description">>]
    ELSE click_classify([product_name |-> product_name, description |-> description],
                        enabled, g, resp)

\* the request is handled and a result that was produced is stored
HandleClick(t) ==
    /\ request' = t
    /\ classification_history' =
           IF t.outcome = "stored" THEN Append(classification_history, t.result)
           ELSE classification_history

ClassifyClick ==
    /\ page = "classifier"
    /\ Len(classification_history) < MaxHistory
    /\ \E product_name \in ProductNames, description \in Descriptions :
          IF product_name = "" \/ description = ""
          THEN HandleClick(classify_click(product_name, description, enable_fallback,
                                          NoResponse, NoResponse))
          ELSE \E g \in GeminiOutcomes :
                  LET t0 == classify_click(product_name, description, enable_fallback,
                                           g, NoResponse)
                  IN  IF t0.fallback_calls = 0 THEN HandleClick(t0)
                      ELSE \E resp \in FallbackResponses :
                              HandleClick(classify_click(product_name, description,
                                                         enable_fallback, g, resp))
    /\ UNCHANGED <<page, mapVars, enable_fallback, normVars, dutyVars, batchVars>>

\* the "Enable Fallback Analysis" checkbox
SetEnableFallback ==
    /\ page = "classifier"
    /\ enable_fallback' = ~enable_fallback
    /\ UNCHANGED <<page, mapVars, classification_history, request, normVars, dutyVars, batchVars>>

(***************************************************************************)
(* Duty calculator: src/utils/duty_calculator.py                           *)
(***************************************************************************)
Max(a, b) == IF a >= b THEN a ELSE b

DAdd(a, b) ==
    LET e == Max(a.e, b.e)
    IN  Dec(a.m * Pow10(e - a.e) + b.m * Pow10(e - b.e), e)

DSub(a, b) == DAdd(a, [m |-> -b.m, e |-> b.e])

DMul(a, b) == Dec(a.m * b.m, a.e + b.e)

DMax(a, b) == IF DLt(a, b) THEN b ELSE a
DMin(a, b) == IF DLt(b, a) THEN b ELSE a

\* a quotient num / den that is kept unevaluated (0/1 stands for 0)
Ratio(num, den) == [num |-> num, den |-> den]
RatioZero == Ratio(Whole(0), Whole(1))

\* DutyCalculator.MPF_RATE = 0.003464
MPF_RATE == Dec(3464, 6)
\* DutyCalculator.MPF_MIN = 27.75
MPF_MIN == Dec(2775, 2)
\* DutyCalculator.MPF_MAX = 538.40
MPF_MAX == Dec(53840, 2)
\* DutyCalculator.HMF_RATE = 0.00125
HMF_RATE == Dec(125, 5)

LowerChar(c) ==
    CASE c = "F" -> "f" [] c = "R" -> "r" [] c = "E" -> "e" [] c = "N" -> "n"
      [] c = "A" -> "a" [] c = "O" -> "o" [] OTHER -> c

lower(s) == [i \in 1..Len(s) |-> LowerChar(s[i])]

\* s.split(sep)[0]: the part before the first sep, the whole text without one
RECURSIVE before_first(_, _)
before_first(s, sep) ==
    IF Len(s) = 0 \/ s[1] = sep THEN <<>> ELSE <<s[1]>> \o before_first(Tail(s), sep)

contains(s, c) == \E i \in 1..Len(s) : s[i] = c

ZeroRateWords == {<<"f", "r", "e", "e">>, <<"n", "/", "a">>, <<"n", "o", "n", "e">>}

\* Python truth value of a rate: None, "" and 0 are false
truthy(v) ==
    CASE v.kind = "str" -> v.text # NoText
      [] v.kind = "num" -> pyfloat(v.text).n # Whole(0)
      [] OTHER -> FALSE

\* a rate that is left in percent
rate_of_percent(f) == IF f.ok THEN f.n ELSE Whole(0)

\* rate / 100 of the number before the first "%", 0.0 when float() fails
rate_of(f) == IF f.ok THEN Dec(f.n.m, f.n.e + 2) ELSE Whole(0)

\* DutyCalculator.parse_duty_rate; a rate that is not a text has no lower()
parse_duty_rate(duty_rate_str) ==
    IF ~truthy(duty_rate_str) THEN [raised |-> FALSE, rate |-> Whole(0)]
    ELSE IF duty_rate_str.kind # "str" THEN [raised |-> TRUE, rate |-> Whole(0)]
    ELSE IF lower(duty_rate_str.text) \in ZeroRateWords
    THEN [raised |-> FALSE, rate |-> Whole(0)]
    ELSE IF contains(duty_rate_str.text, "%")
    THEN [raised |-> FALSE,
          rate |-> rate_of(pyfloat(strip(before_first(before_first(duty_rate_str.text, "%"),
                                                      "+"))))]
    ELSE [raised |-> FALSE, rate |-> Whole(0)]

\* parse_duty_rate applied to one input: did it raise, and the rate returned
rate_parsed(r) == [done |-> TRUE, raised |-> r.raised, rate |-> r.rate]

ParseRate ==
    /\ ~rateOut.done
    /\ rateOut' = rate_parsed(parse_duty_rate(rateIn))
    /\ UNCHANGED <<page, mapVars, rateIn, confIn, normOut, singleVars, dutyVars, batchVars>>

\* a processing fee without the floor
mpf_fee_no_floor(customs_value, include_mpf) ==
    IF include_mpf THEN DMin(DMul(customs_value, MPF_RATE), MPF_MAX) ELSE Whole(0)

\* duty_calculator.py lines 65-69: the merchandise processing fee
mpf_fee(customs_value, include_mpf) ==
    IF include_mpf
    THEN DMax(MPF_MIN, DMin(DMul(customs_value, MPF_RATE), MPF_MAX))
    ELSE Whole(0)

\* duty_calculator.py lines 71-74: the harbor maintenance fee
hmf_fee(customs_value, shipping_method, include_hmf) ==
    IF include_hmf /\ shipping_method = "sea"
    THEN DMul(customs_value, HMF_RATE) ELSE Whole(0)

\* totals that leave the harbor maintenance fee out of the landed cost
duty_totals_no_hmf(customs_value, base_duty, mpf, hmf) ==
    LET total_duties == DAdd(DAdd(base_duty, mpf), hmf)
    IN  [total_duties |-> total_duties,
         total_landed_cost |-> DAdd(customs_value, DAdd(base_duty, mpf))]

\* duty_calculator.py lines 76-78: total fees and landed cost
duty_totals(customs_value, base_duty, mpf, hmf) ==
    LET total_duties == DAdd(DAdd(base_duty, mpf), hmf)
    IN  [total_duties |-> total_duties,
         total_landed_cost |-> DAdd(customs_value, total_duties)]

\* the 'invoice_breakdown' entry of a result dict; has = FALSE: no such key
InvoiceBreakdown(has, fob_value, freight_cost, insurance_cost, cif_value) ==
    [has |-> has, fob_value |-> fob_value, freight_cost |-> freight_cost,
     insurance_cost |-> insurance_cost, cif_value |-> cif_value]

NoInvoice == InvoiceBreakdown(FALSE, Whole(0), Whole(0), Whole(0), Whole(0))

\* the breakdown dict of lines 83-94
Breakdown(customs_value, applied, duty_rate_decimal) ==
    [customs_value |-> customs_value,
     duty_rate_applied |-> applied,
     duty_rate_decimal |-> duty_rate_decimal,
     base_duty |-> Whole(0), mpf |-> Whole(0), hmf |-> Whole(0),
     total_duties_and_fees |-> Whole(0),
     total_landed_cost |-> Whole(0),
     effective_duty_rate |-> RatioZero,
     invoice_breakdown |-> NoInvoice]

NoBreakdown == Breakdown(Whole(0), Absent, Whole(0))

\* duty_calculator.py line 81: the effective rate in percent
effective_rate_of(customs_value, total_duties) ==
    IF DLt(Whole(0), customs_value) THEN Ratio(Times100(total_duties), customs_value)
    ELSE RatioZero

\* duty_calculator.py lines 80-97
duties_result(customs_value, applied, duty_rate_decimal, base_duty, mpf, hmf, tot) ==
    [raised |-> FALSE, err |-> "",
     val |-> [Breakdown(customs_value, applied, duty_rate_decimal)
              EXCEPT !.base_duty = base_duty, !.mpf = mpf, !.hmf = hmf,
                     !.total_duties_and_fees = tot.total_duties,
                     !.total_landed_cost = tot.total_landed_cost,
                     !.effective_duty_rate =
                         effective_rate_of(customs_value, tot.total_duties)]]

\* duty_calculator.py lines 76-97
duties_fees(customs_value, applied, duty_rate_decimal, base_duty, mpf, hmf) ==
    duties_result(customs_value, applied, duty_rate_decimal, base_duty, mpf, hmf,
                  duty_totals(customs_value, base_duty, mpf, hmf))

\* duty_calculator.py lines 60-97
duties_parsed(customs_value, applied, parsed, shipping_method, include_mpf, include_hmf) ==
    IF parsed.raised THEN [raised |-> TRUE, err |-> ErrLower, val |-> NoBreakdown]
    ELSE duties_fees(customs_value, applied, parsed.rate,
                     DMul(customs_value, parsed.rate),
                     mpf_fee(customs_value, include_mpf),
                     hmf_fee(customs_value, shipping_method, include_hmf))

\* duty_calculator.py lines 59-97
duties_with_rate(customs_value, effective_duty_rate_str, shipping_method, include_mpf, include_hmf) ==
    duties_parsed(customs_value, effective_duty_rate_str,
                  parse_duty_rate(effective_duty_rate_str),
                  shipping_method, include_mpf, include_hmf)

\* DutyCalculator.calculate_duties: the breakdown it returns and appends to
\* its history, or the error raised while the rate is parsed
calculate_duties(customs_value, duty_rate, shipping_method, include_mpf, include_hmf, preferential_rate) ==
    duties_with_rate(customs_value,
                     IF truthy(preferential_rate) THEN preferential_rate ELSE duty_rate,
                     shipping_method, include_mpf, include_hmf)

Rate34plus == Str(<<"3", ".", "4", "%", " ", "+", " ", "$", "0", ".", "2", "5", "/", "k", "g">>)
RatePerKg  == Str(<<"$", "0", ".", "4", "2", "/", "k", "g">>)
RateFree   == Str(<<"F", "r", "e", "e">>)
RateFREE   == Str(<<"F", "R", "E", "E">>)
RateNone   == Str(<<"N", "o", "n", "e">>)
Rate_na    == Str(<<"n", "/", "a">>)
RateAbcPct == Str(<<"a", "b", "c", "%">>)
Rate65     == Str(<<"6", ".", "5", "%">>)

RateChars == {"5", ".", "%", "+", " ", "-", "$"}

\* the duty-rate values parse_duty_rate is applied to: every text over
\* RateChars up to MaxRateLen, the rates of the docstring, the zero words,
\* None and a number
RateValues ==
    {Str(t) : t \in UNION {[1..k -> RateChars] : k \in 0..MaxRateLen}}
        \cup {Rate55, Rate65, Rate34plus, RatePerKg, RateFree, RateFREE, RateNone, RateNA,
              Rate_na, RateAbcPct, RateNumber, PyNone}
RateNeg5   == Str(<<"-", "5", "%">>)

\* what can be typed into the "Duty Rate" text input
DutyRateTexts == {Rate55, RateFree, Rate34plus, RatePerKg, RateNeg5}

CustomsValues == {Whole(0), Whole(1000), Whole(10000), Whole(200000)}

InvoiceFob == {Whole(0), Whole(8000)}
InvoiceFreight == {Whole(1500)}
InvoiceInsurance == {Whole(0), Whole(500)}

ShippingMethods == {"sea", "air"}

NoDutyOut == [op |-> "none", include_mpf |-> FALSE, result |-> NoBreakdown,
              second |-> NoBreakdown, savings |-> Whole(0), savings_percent |-> RatioZero,
              cif_value |-> Whole(0)]

\* the frame of a calculate_from_invoice call between its call of
\* calculate_duties (line 121) and its return (line 135)
NoInvoiceCall == [pending |-> FALSE, breakdown |-> NoInvoice]

DutyIdle == /\ calcCfg = [shipping_method |-> "sea", include_mpf |-> TRUE, include_hmf |-> TRUE]
            /\ calculation_history = <<>>
            /\ dutyOut = NoDutyOut
            /\ invoice = NoInvoiceCall

\* the calculator returned: its history grew by the breakdown, which is shown
DutyCalculated(r, op, include_mpf, cif_value) ==
    /\ ~r.raised
    /\ calculation_history' = Append(calculation_history, r.val)
    /\ dutyOut' = [NoDutyOut EXCEPT !.op = op, !.include_mpf = include_mpf,
                                    !.result = r.val, !.cif_value = cif_value]
    /\ UNCHANGED invoice

\* app.py show_duty_calculator_page, "Calculate Duties"
CalculateDuties ==
    /\ page = "duty"
    /\ ~invoice.pending
    /\ Len(calculation_history) < MaxCalcs
    /\ \E customs_value \in CustomsValues, duty_rate \in DutyRateTexts :
          DutyCalculated(calculate_duties(customs_value, duty_rate, calcCfg.shipping_method,
                                          calcCfg.include_mpf, calcCfg.include_hmf, PyNone),
                         "calculate_duties", calcCfg.include_mpf, Whole(0))
    /\ UNCHANGED <<page, mapVars, calcCfg, normVars, singleVars, batchVars>>

\* duty_calculator.py lines 121-125: calculate_duties returned `result`, the
\* dict it has appended to the history
invoice_called(r, breakdown) ==
    /\ ~r.raised
    /\ calculation_history' = Append(calculation_history, r.val)
    /\ invoice' = [pending |-> TRUE, breakdown |-> breakdown]
    /\ UNCHANGED dutyOut

\* DutyCalculator.calculate_from_invoice, lines 119-125
calculate_from_invoice(fob_value, freight_cost, insurance_cost, cif_value, duty_rate, shipping_method) ==
    invoice_called(calculate_duties(cif_value, duty_rate, shipping_method, TRUE, TRUE, PyNone),
                   InvoiceBreakdown(TRUE, fob_value, freight_cost, insurance_cost, cif_value))

\* app.py show_duty_calculator_page, "Calculate from Invoice": the call of
\* calculate_from_invoice up to its call of calculate_duties
CalculateFromInvoice ==
    /\ page = "duty"
    /\ ~invoice.pending
    /\ Len(calculation_history) < MaxCalcs
    /\ \E fob_value \in InvoiceFob, freight_cost \in InvoiceFreight,
          insurance_cost \in InvoiceInsurance, duty_rate \in DutyRateTexts :
          calculate_from_invoice(fob_value, freight_cost, insurance_cost,
                                 DAdd(DAdd(fob_value, freight_cost), insurance_cost),
                                 duty_rate, calcCfg.shipping_method)
    /\ UNCHANGED <<page, mapVars, calcCfg, normVars, singleVars, batchVars>>

\* result['invoice_breakdown'] = {...} on the dict that sits in the history
invoice_attached(result) ==
    [result EXCEPT !.invoice_breakdown = invoice.breakdown]

\* duty_calculator.py lines 127-135 and app.py lines 1183-1190: the invoice
\* breakdown is written into `result`, which is the last entry of the
\* history, and the result is shown
AttachInvoice ==
    /\ page = "duty"
    /\ invoice.pending
    /\ calculation_history' =
           [calculation_history EXCEPT ![Len(calculation_history)] = invoice_attached(@)]
    /\ dutyOut' = [NoDutyOut EXCEPT
                      !.op = "calculate_from_invoice", !.include_mpf = TRUE,
                      !.result = invoice_attached(calculation_history[Len(calculation_history)]),
                      !.cif_value = invoice.breakdown.cif_value]
    /\ invoice' = NoInvoiceCall
    /\ UNCHANGED <<page, mapVars, calcCfg, normVars, singleVars, batchVars>>

\* duty_calculator.py line 158
savings_percent_of(savings, standard_fees) ==
    IF DLt(Whole(0), standard_fees) THEN Ratio(Times100(savings), standard_fees)
    ELSE RatioZero

\* duty_calculator.py lines 160-166
rates_compared(standard, preferential, savings) ==
    /\ calculation_history' = calculation_history \o <<standard, preferential>>
    /\ UNCHANGED invoice
    /\ dutyOut' = [NoDutyOut EXCEPT !.op = "compare_rates", !.include_mpf = TRUE,
                                    !.result = standard, !.second = preferential,
                                    !.savings = savings,
                                    !.savings_percent =
                                        savings_percent_of(savings,
                                                           standard.total_duties_and_fees)]

\* DutyCalculator.compare_rates, lines 154-166
compare_rates(s1, s2) ==
    /\ ~s1.raised /\ ~s2.raised
    /\ rates_compared(s1.val, s2.val,
                      DSub(s1.val.total_duties_and_fees, s2.val.total_duties_and_fees))

\* app.py show_duty_calculator_page, "Compare Rates"
CompareRates ==
    /\ page = "duty"
    /\ ~invoice.pending
    /\ Len(calculation_history) + 2 <= MaxCalcs
    /\ \E customs_value \in CustomsValues, standard_rate \in DutyRateTexts,
          preferential_rate \in DutyRateTexts :
          compare_rates(calculate_duties(customs_value, standard_rate, "sea", TRUE, TRUE, PyNone),
                        calculate_duties(customs_value, preferential_rate, "sea", TRUE, TRUE,
                                         PyNone))
    /\ UNCHANGED <<page, mapVars, calcCfg, normVars, singleVars, batchVars>>

(***************************************************************************)
(* Batch run: enhanced_batch_processor.py process_batch_with_duties, as    *)
(* started from app.py show_batch_processing_page.  `table` is the table   *)
(* with the canonical columns; one row is handled in the steps progress,   *)
(* classify, fallback, record, duty, append.                               *)
(***************************************************************************)
\* cells of a table as it was read: a text, a number (kept as its text) or NaN
StrCell(text) == [kind |-> "str", v |-> text]
NumberCell(text) == [kind |-> "num", v |-> text]
NaNCell == [kind |-> "nan", v |-> ""]

\* numeric cells of the canonical table
NaN == [kind |-> "nan", n |-> Whole(0)]
NumCell(d) == [kind |-> "num", n |-> d]
TextCell == [kind |-> "text", n |-> Whole(0)]

\* pd.notna(cell)
notna(cell) == cell.kind # "nan"

\* float(cell) of a cell that is not NaN
cell_float(cell) == [ok |-> cell.kind = "num", n |-> cell.n]

ProductLabels == <<"Product_1", "Product_2", "Product_3", "Product_4", "Product_5">>

\* f'Product_{idx+1}' for the row at (1-based) position i
ProductLabel(i) == ProductLabels[i]

\* lines 210-217: the product info built from a row
row_product_info(row, i) ==
    [product_name |-> IF row.product_name = "" THEN ProductLabel(i) ELSE row.product_name,
     description  |-> IF row.description = "" THEN row.product_name ELSE row.description]

NoDuty == [has_duty |-> FALSE, called |-> FALSE, base_duty |-> Whole(0), mpf |-> Whole(0),
           hmf |-> Whole(0), total_duties |-> Whole(0), total_landed_cost |-> Whole(0),
           effective_duty_rate |-> RatioZero, duty_calc_error |-> ""]

\* row.to_dict(): the row's own cells, nothing recorded yet
row_to_dict(row) ==
    [product_name |-> row.product_name, description |-> row.description,
     quantity |-> row.quantity, unit_value |-> row.unit_value,
     customs_value |-> row.customs_value, origin |-> row.origin,
     hs_code |-> NoText, confidence |-> Absent, duty_rate |-> Absent, reasoning |-> <<>>,
     classification_status |-> "", duty |-> NoDuty]

\* an except branch that keeps the N/A defaults of the success branch
row_failed_na(row_result, err) ==
    [row_result EXCEPT !.hs_code = CodeNA, !.confidence = Str(T0pct),
                       !.duty_rate = RateNA,
                       !.reasoning = <<"Classification error: ", err>>,
                       !.classification_status = "Failed"]

\* lines 255-261: the except branch of a row
row_failed(row_result, err) ==
    [row_result EXCEPT !.hs_code = CodeERROR, !.confidence = Str(T0pct),
                       !.duty_rate = RateNA,
                       !.reasoning = <<"Classification error: ", err>>,
                       !.classification_status = "Failed"]

\* a record step that fails the rows whose confidence is below the routing threshold
row_success_fails_low(row_result, classification) ==
    [row_result EXCEPT
        !.hs_code = IF classification.has_code THEN classification.recommended_code
                    ELSE CodeNA,
        !.confidence = IF classification.confidence = Absent THEN Str(T0pct)
                       ELSE classification.confidence,
        !.duty_rate = IF classification.duty_rate = Absent THEN RateNA
                      ELSE classification.duty_rate,
        !.reasoning = classification.reasoning,
        !.classification_status =
            IF DLt(_parse_confidence(IF classification.confidence = Absent THEN Str(T0pct)
                                     ELSE classification.confidence), Whole(50))
            THEN "Failed" ELSE "Success"]

\* lines 232-238: the classification written into the row
row_success(row_result, classification) ==
    [row_result EXCEPT
        !.hs_code = IF classification.has_code THEN classification.recommended_code
                    ELSE CodeNA,
        !.confidence = IF classification.confidence = Absent THEN Str(T0pct)
                       ELSE classification.confidence,
        !.duty_rate = IF classification.duty_rate = Absent THEN RateNA
                      ELSE classification.duty_rate,
        !.reasoning = classification.reasoning,
        !.classification_status = "Success"]

\* lines 228: is the row routed to the fallback
batch_routed(fallbackSet, confidence) == fallbackSet /\ DLt(confidence, Whole(50))

\* lines 290-294: the customs_value cell, when it holds a number
value_step1(row) ==
    IF notna(row.customs_value) /\ cell_float(row.customs_value).ok
    THEN cell_float(row.customs_value).n ELSE Whole(0)

\* float(cell) if pd.notna(cell) else default
cell_or(cell, default) ==
    IF notna(cell) THEN cell_float(cell) ELSE [ok |-> TRUE, n |-> default]

\* lines 297-302: quantity * unit_value, unless a float() raised
value_product(q, u, v1) == IF q.ok /\ u.ok THEN DMul(q.n, u.n) ELSE v1

\* lines 296-302
value_step2(row, v1) ==
    IF v1 = Whole(0)
    THEN value_product(cell_or(row.quantity, Whole(1)), cell_or(row.unit_value, Whole(0)), v1)
    ELSE v1

\* lines 307-313: one column whose name contains 'total' or 'value'
scan_column(cell, acc) ==
    IF notna(cell) /\ cell_float(cell).ok THEN cell_float(cell).n ELSE acc

\* lines 306-313: the next such column, unless the loop broke on a positive value
scan_rest(row, a1) == IF DLt(Whole(0), a1) THEN a1 ELSE scan_column(row.customs_value, a1)

\* lines 304-313: the columns unit_value and customs_value, in column order
value_step3(row, v2) ==
    IF v2 = Whole(0) THEN scan_rest(row, scan_column(row.unit_value, v2)) ELSE v2

\* lines 287-313: the customs value found for a row
row_customs_value(row) == value_step3(row, value_step2(row, value_step1(row)))

ZeroDuty == [NoDuty EXCEPT !.has_duty = TRUE]

\* an except branch that drops the error text
duty_fields_silent(customs_value, r) ==
    IF ~r.raised
    THEN [customs_value |-> customs_value, breakdown |-> r.val,
          duty |-> [has_duty |-> TRUE, called |-> TRUE,
                    base_duty |-> r.val.base_duty,
                    mpf |-> r.val.mpf, hmf |-> r.val.hmf,
                    total_duties |-> r.val.total_duties_and_fees,
                    total_landed_cost |-> r.val.total_landed_cost,
                    effective_duty_rate |-> r.val.effective_duty_rate,
                    duty_calc_error |-> ""]]
    ELSE [customs_value |-> Whole(0), breakdown |-> NoBreakdown, duty |-> ZeroDuty]

\* lines 316-332 and 344-354: the row's duty fields from the calculator's return
duty_fields(customs_value, r) ==
    IF ~r.raised
    THEN [customs_value |-> customs_value, breakdown |-> r.val,
          duty |-> [has_duty |-> TRUE, called |-> TRUE,
                    base_duty |-> r.val.base_duty,
                    mpf |-> r.val.mpf, hmf |-> r.val.hmf,
                    total_duties |-> r.val.total_duties_and_fees,
                    total_landed_cost |-> r.val.total_landed_cost,
                    effective_duty_rate |-> r.val.effective_duty_rate,
                    duty_calc_error |-> ""]]
    ELSE [customs_value |-> Whole(0), breakdown |-> NoBreakdown,
          duty |-> [ZeroDuty EXCEPT !.duty_calc_error = r.err]]

\* lines 315-342
duties_for_value(customs_value, duty_rate, shipping_method, include_mpf, include_hmf) ==
    IF DLt(Whole(0), customs_value)
    THEN duty_fields(customs_value,
                     calculate_duties(customs_value, duty_rate, shipping_method,
                                      include_mpf, include_hmf, PyNone))
    ELSE [customs_value |-> Whole(0), breakdown |-> NoBreakdown, duty |-> ZeroDuty]

\* _calculate_duties_for_row: the new customs value, the duty fields and the
\* calculator's breakdown when it was called
calculate_duties_for_row(row, duty_rate, shipping_method, include_mpf, include_hmf) ==
    duties_for_value(row_customs_value(row), duty_rate, shipping_method,
                     include_mpf, include_hmf)

(***************************************************************************)
(* Batch summary: enhanced_batch_processor.py generate_duty_summary, on    *)
(* the result table of a run.  The entries highest_duty_items and          *)
(* duty_rate_distribution are kept as keys only.                           *)
(***************************************************************************)
NoSummary ==
    [done |-> FALSE, raised |-> FALSE, keys |-> {}, message |-> "",
     total_customs_value |-> Whole(0), total_base_duty |-> Whole(0), total_mpf |-> Whole(0),
     total_hmf |-> Whole(0), total_duties |-> Whole(0), total_landed_cost |-> Whole(0),
     average_effective_rate |-> RatioZero, average_duty_rate |-> Whole(0),
     products_with_duties |-> 0, products_duty_free |-> 0,
     duty_by_country |-> [customs_value |-> <<>>, total_duties |-> <<>>, product_name |-> <<>>],
     duty_by_hs_code |-> [customs_value |-> <<>>, total_duties |-> <<>>, product_name |-> <<>>]]

\* lines 436-442 and 447-453: the dict of the two early returns
early_summary(message) ==
    [NoSummary EXCEPT !.done = TRUE, !.message = message,
                      !.keys = {"total_customs_value", "total_duties", "total_landed_cost",
                                "average_duty_rate", "message"}]

\* line 444: `df['customs_value'] > 0` compares every cell of the column with
\* 0; a text cell makes the comparison raise TypeError
compare_raises(rows) == \E i \in 1..Len(rows) : rows[i].customs_value.kind = "text"

\* a filter that keeps the rows of every status
in_duty_df_any_status(row) ==
    row.customs_value.kind = "num" /\ DLt(Whole(0), row.customs_value.n)

\* line 444: the rows of duty_df (NaN > 0 is False)
in_duty_df(row) ==
    /\ row.classification_status = "Success"
    /\ row.customs_value.kind = "num" /\ DLt(Whole(0), row.customs_value.n)

\* duty_df[field] of one row
amount(row, field) == IF field = "customs_value" THEN row.customs_value.n ELSE row.duty[field]

\* duty_df[field].sum()
RECURSIVE column_sum(_, _, _)
column_sum(rows, field, i) ==
    IF i > Len(rows) THEN Whole(0)
    ELSE DAdd(amount(rows[i], field), column_sum(rows, field, i + 1))

\* line 469: len(duty_df[duty_df.get('base_duty', 0) == 0])
duty_free(rows) == Len(SelectSeq(rows, LAMBDA r : r.duty.base_duty = Whole(0)))

\* groupby(by): the key of a row; groupby drops the rows whose key is NaN
key_is_nan(row, by) == by = "origin" /\ row.origin.kind = "nan"
key_of(row, by) == IF by = "origin" THEN row.origin.v ELSE row.hs_code
group_keys(rows, by) ==
    {key_of(rows[i], by) : i \in {j \in 1..Len(rows) : ~key_is_nan(rows[j], by)}}
group_of(rows, by, key) ==
    SelectSeq(rows, LAMBDA r : ~key_is_nan(r, by) /\ key_of(r, by) = key)

\* lines 473-477 and 481-485: the sums and the row count of every group
rollup(rows, by) ==
    [customs_value |-> [k \in group_keys(rows, by) |->
                           column_sum(group_of(rows, by, k), "customs_value", 1)],
     total_duties  |-> [k \in group_keys(rows, by) |->
                           column_sum(group_of(rows, by, k), "total_duties", 1)],
     product_name  |-> [k \in group_keys(rows, by) |-> Len(group_of(rows, by, k))]]

\* line 472: 'origin' in duty_df.columns and duty_df['origin'].notna().any()
has_origin_data(rows) == \E i \in 1..Len(rows) : rows[i].origin.kind # "nan"

\* lines 467-469 with the sums of lines 456-461
summary_rates(s, rows) ==
    IF DLt(Whole(0), s.total_customs_value)
    THEN [s EXCEPT !.average_effective_rate =
                       Ratio(Times100(s.total_duties), s.total_customs_value),
                   !.products_duty_free = duty_free(rows)]
    ELSE s

\* lines 471-477: the rollup by origin, when the column holds any value
summary_by_country(s, rows) ==
    IF has_origin_data(rows)
    THEN [s EXCEPT !.keys = @ \cup {"duty_by_country"},
                   !.duty_by_country = rollup(rows, "origin")]
    ELSE s

\* lines 455-497 on the rows of duty_df
summary_of(rows) ==
    summary_by_country(
        summary_rates(
            [NoSummary EXCEPT
                !.done = TRUE,
                !.keys = {"total_customs_value", "total_base_duty", "total_mpf", "total_hmf",
                          "total_duties", "total_landed_cost", "average_effective_rate",
                          "products_with_duties", "products_duty_free", "duty_by_hs_code",
                          "highest_duty_items", "duty_rate_distribution"},
                !.total_customs_value = column_sum(rows, "customs_value", 1),
                !.total_base_duty = column_sum(rows, "base_duty", 1),
                !.total_mpf = column_sum(rows, "mpf", 1),
                !.total_hmf = column_sum(rows, "hmf", 1),
                !.total_duties = column_sum(rows, "total_duties", 1),
                !.total_landed_cost = column_sum(rows, "total_landed_cost", 1),
                !.products_with_duties = Len(rows),
                !.duty_by_hs_code = rollup(rows, "hs_code")],
            rows),
        rows)

\* the filter of line 444 and what follows it
summary_filtered(duty_df) ==
    IF Len(duty_df) = 0 THEN early_summary("No products with valid duty calculations")
    ELSE summary_of(duty_df)

\* EnhancedBatchProcessor.generate_duty_summary; a table without rows has no
\* columns (pd.DataFrame([]))
generate_duty_summary(df_rows) ==
    IF Len(df_rows) = 0 THEN early_summary("No duty data available")
    ELSE IF compare_raises(df_rows) THEN [NoSummary EXCEPT !.done = TRUE, !.raised = TRUE]
    ELSE summary_filtered(SelectSeq(df_rows, in_duty_df))

\* what the upload handler has shown for the uploaded file
Message(kind, text, rows) == [kind |-> kind, text |-> text, rows |-> rows]

NoUpload == [outcome |-> "none", shown |-> Message("none", "", 0)]

\* enhanced_batch_processor.py line 154: the largest accepted table
MAX_PRODUCTS == 100

\* EnhancedBatchProcessor.validate_input_file on a table of n rows: the
\* tuple (is_valid, message, mapping_info) it returns
validate_input_file(n) ==
    IF n = 0
    THEN <<FALSE, Message("reason", "The file contains no data rows", n), "{}">>
    ELSE IF n > MAX_PRODUCTS
    THEN <<FALSE,
           Message("reason",
                   "File contains {len(df)} rows. Maximum 100 products per batch. Please split your file.",
                   n),
           "{}">>
    ELSE <<TRUE, Message("success", "File processed successfully ({len(df)} products)", n),
           "mapping_info">>

\* is_valid, message = <tuple>: ValueError unless the tuple has two values
unpack_two(t) ==
    IF Len(t) = 2 THEN [raised |-> FALSE, is_valid |-> t[1], message |-> t[2]]
    ELSE [raised |-> TRUE, is_valid |-> FALSE, message |-> Message("none", "", 0)]

\* app.py lines 667-673 and 801-802: the outcome of the upload handler
upload_outcome(n, u) ==
    IF u.raised
    THEN [outcome |-> "error",
          shown |-> Message("error",
                            "Error reading file: too many values to unpack (expected 2)", n)]
    ELSE IF ~u.is_valid THEN [outcome |-> "rejected", shown |-> u.message]
    ELSE [outcome |-> "accepted", shown |-> u.message]

\* app.py show_batch_processing_page lines 652-673: a file sits in the
\* uploader; it is read, validated, and the message is shown
UploadFile ==
    /\ page = "batch"
    /\ pc = "uploaded"
    /\ upload' = upload_outcome(Len(table), unpack_two(validate_input_file(Len(table))))
    /\ pc' = "shown"
    /\ UNCHANGED <<page, mapVars, summary, table, batchCfg, idx, cur, results, progressLog,
                   normVars, singleVars, dutyVars>>

NoCur == [row_result |-> row_to_dict([product_name |-> "", description |-> "",
                                      quantity |-> NaN, unit_value |-> NaN,
                                      customs_value |-> NaN, origin |-> StrCell("")]),
          product_info |-> [product_name |-> "", description |-> ""],
          primary |-> NotCalled, confidence |-> MinusOne, classification |-> NoDict,
          fallback_calls |-> 0, response |-> NoResponse, fallback |-> NotCalled]

BatchIdle == /\ table = <<>>
             /\ batchCfg = [fallback |-> TRUE, calculate_duties |-> FALSE,
                            shipping_method |-> "sea", include_mpf |-> TRUE,
                            include_hmf |-> TRUE]
             /\ idx = 0 /\ pc = "idle" /\ cur = NoCur /\ results = <<>>
             /\ progressLog = <<>>
             /\ upload = NoUpload /\ summary = NoSummary

\* process_batch_with_duties is called on a table (lines 198-204): the run
\* begins with an empty result list; a table without rows is done at once
StartBatch ==
    /\ page = "batch"
    /\ pc = "idle"
    /\ Len(table) <= MaxRows
    /\ results' = <<>>
    /\ idx' = 1
    /\ pc' = IF Len(table) = 0 THEN "done" ELSE "progress"
    /\ UNCHANGED <<page, mapVars, summary, upload, table, batchCfg, cur, progressLog, normVars, singleVars, dutyVars>>

\* line 207: the slice [:50]
LabelChars == 50

\* line 207: text[:n]
first_chars(text, n) == IF Len(text) > n THEN SubSeq(text, 1, n) ELSE text

\* line 207: product_display; the table of the model always has the
\* product_name column, so the default 'Row <i>' is never taken
product_display(row, i) == first_chars(row.product_name, LabelChars)

\* a loop that reports the 0-based position of the row
ProgressRow_zero_based ==
    /\ pc = "progress"
    /\ progressLog' = Append(progressLog,
                             [current |-> idx - 1, total |-> Len(table),
                              label |-> product_display(table[idx], idx)])
    /\ cur' = [NoCur EXCEPT !.row_result = row_to_dict(table[idx]),
                            !.product_info = row_product_info(table[idx], idx)]
    /\ pc' = "classify"
    /\ UNCHANGED <<page, mapVars, summary, upload, table, batchCfg, idx, results, normVars, singleVars, dutyVars>>

\* lines 205-220: progress callback, product info, row_result = row.to_dict()
ProgressRow ==
    /\ pc = "progress"
    /\ progressLog' = Append(progressLog,
                             [current |-> idx, total |-> Len(table),
                              label |-> product_display(table[idx], idx)])
    /\ cur' = [NoCur EXCEPT !.row_result = row_to_dict(table[idx]),
                            !.product_info = row_product_info(table[idx], idx)]
    /\ pc' = "classify"
    /\ UNCHANGED <<page, mapVars, summary, upload, table, batchCfg, idx, results, normVars, singleVars, dutyVars>>

\* lines 227-228: the confidence is parsed and the row is routed
row_routing(p, confidence) ==
    /\ cur' = [cur EXCEPT !.primary = p, !.confidence = confidence,
                          !.classification = p.val]
    /\ pc' = IF batch_routed(batchCfg.fallback, confidence) THEN "fallback" ELSE "record"

\* lines 224-228 and 254-261: the primary classifier returned or raised
row_classified(p) ==
    IF p.raised
    THEN /\ cur' = [cur EXCEPT !.primary = p,
                               !.row_result = row_failed(cur.row_result, p.err)]
         /\ pc' = "append"
    ELSE row_routing(p, _parse_confidence(IF p.val.confidence = Absent THEN Num(<<"0">>)
                                          ELSE p.val.confidence))

\* lines 222-228: the primary classifier and the routing decision
ClassifyRow(GeminiSet) ==
    /\ pc = "classify"
    /\ \E g \in GeminiSet : row_classified(classify_product(cur.product_info, g))
    /\ UNCHANGED <<page, mapVars, summary, upload, table, batchCfg, idx, results, progressLog, normVars, singleVars, dutyVars>>

\* a routing step that treats a failed fallback result as an exception
row_fallback_fails(resp, fb) ==
    IF fb.raised \/ fb.val.status = "failed"
    THEN /\ cur' = [cur EXCEPT !.fallback = fb, !.response = resp,
                               !.fallback_calls = cur.fallback_calls + 1,
                               !.row_result = row_failed(cur.row_result, fb.err)]
         /\ pc' = "append"
    ELSE /\ cur' = [cur EXCEPT !.fallback = fb, !.response = resp,
                               !.fallback_calls = cur.fallback_calls + 1,
                               !.classification = fb.val]
         /\ pc' = "record"

\* lines 229 and 254-261: the fallback analyzer returned or raised
row_fallback(resp, fb) ==
    IF fb.raised
    THEN /\ cur' = [cur EXCEPT !.fallback = fb, !.response = resp,
                               !.fallback_calls = cur.fallback_calls + 1,
                               !.row_result = row_failed(cur.row_result, fb.err)]
         /\ pc' = "append"
    ELSE /\ cur' = [cur EXCEPT !.fallback = fb, !.response = resp,
                               !.fallback_calls = cur.fallback_calls + 1,
                               !.classification = fb.val]
         /\ pc' = "record"

\* line 229: the fallback analyzer
FallbackRow(ResponseSet) ==
    /\ pc = "fallback"
    /\ \E resp \in ResponseSet :
          row_fallback(resp, analyze_unknown_product(cur.product_info, resp))
    /\ UNCHANGED <<page, mapVars, summary, upload, table, batchCfg, idx, results, progressLog, normVars, singleVars, dutyVars>>

\* a record step that already puts the row into the output
RecordRow_appends ==
    /\ pc = "record"
    /\ cur' = [cur EXCEPT !.row_result = row_success(cur.row_result, cur.classification)]
    /\ results' = Append(results, row_success(cur.row_result, cur.classification))
    /\ pc' = IF batchCfg.calculate_duties THEN "duty" ELSE "append"
    /\ UNCHANGED <<page, mapVars, summary, upload, table, batchCfg, idx, progressLog, normVars, singleVars, dutyVars>>

\* lines 231-241: the classification is written into the row
RecordRow ==
    /\ pc = "record"
    /\ cur' = [cur EXCEPT !.row_result = row_success(cur.row_result, cur.classification)]
    /\ pc' = IF batchCfg.calculate_duties THEN "duty" ELSE "append"
    /\ UNCHANGED <<page, mapVars, summary, upload, table, batchCfg, idx, results, progressLog, normVars, singleVars, dutyVars>>

\* line 250: row_result.update(duty_result); the calculator's history grows
\* when it was called
row_duties(d) ==
    /\ cur' = [cur EXCEPT !.row_result.customs_value = NumCell(d.customs_value),
                          !.row_result.duty = d.duty]
    /\ calculation_history' = IF d.duty.called THEN Append(calculation_history, d.breakdown)
                              ELSE calculation_history

\* lines 241-252: the duties of the row
DutyRow ==
    /\ pc = "duty"
    /\ row_duties(calculate_duties_for_row(
                      cur.row_result,
                      IF cur.classification.duty_rate = Absent THEN Str(T0pct)
                      ELSE cur.classification.duty_rate,
                      batchCfg.shipping_method, batchCfg.include_mpf, batchCfg.include_hmf))
    /\ pc' = "append"
    /\ UNCHANGED <<page, mapVars, summary, upload, table, batchCfg, idx, results, progressLog, normVars, singleVars,
                   calcCfg, dutyOut, invoice>>

\* a loop that ends at the first failed row
AppendRow_stops_at_failure ==
    /\ pc = "append"
    /\ results' = Append(results, cur.row_result)
    /\ idx' = idx + 1
    /\ pc' = IF idx = Len(table) \/ cur.row_result.classification_status = "Failed"
             THEN "done" ELSE "progress"
    /\ UNCHANGED <<page, mapVars, summary, upload, table, batchCfg, cur, progressLog, normVars, singleVars, dutyVars>>

\* lines 263-267: the row is appended and the loop moves on
AppendRow ==
    /\ pc = "append"
    /\ results' = Append(results, cur.row_result)
    /\ idx' = idx + 1
    /\ pc' = IF idx = Len(table) THEN "done" ELSE "progress"
    /\ UNCHANGED <<page, mapVars, summary, upload, table, batchCfg, cur, progressLog, normVars, singleVars, dutyVars>>

\* app.py lines 792-793: the summary of a finished run with duty calculation
GenerateDutySummary ==
    /\ page = "batch" /\ pc = "done" /\ batchCfg.calculate_duties
    /\ summary' = generate_duty_summary(results)
    /\ pc' = "summarized"
    /\ UNCHANGED <<page, mapVars, upload, table, batchCfg, idx, cur, results, progressLog,
                   normVars, singleVars, dutyVars>>

\* inputs of the batch runs
PlainRow == [product_name |-> "Cotton T-Shirt", description |-> "crew neck, short sleeves",
             quantity |-> NaN, unit_value |-> NaN, customs_value |-> NaN,
             origin |-> StrCell("")]

BlankRow == [PlainRow EXCEPT !.product_name = "", !.description = ""]

\* a product name of 67 characters
LongRow ==
    [PlainRow EXCEPT
        !.product_name = "Cotton T-Shirt, crew neck, short sleeves, 100% combed cotton jersey"]

ClassRows == {PlainRow, BlankRow, LongRow}

DutyRows ==
    {[PlainRow EXCEPT !.customs_value = NumCell(Whole(10000))],
     [PlainRow EXCEPT !.customs_value = NumCell(Whole(200000))],
     [PlainRow EXCEPT !.quantity = NumCell(Whole(2)), !.unit_value = NumCell(Whole(500))],
     [PlainRow EXCEPT !.customs_value = NumCell(Whole(0)), !.unit_value = NumCell(Whole(500))],
     [PlainRow EXCEPT !.customs_value = TextCell],
     PlainRow}

TablesOf(rows) == UNION {[1..n -> rows] : n \in 0..MaxRows}

\* the files put into the uploader: the tables above and tables at the size limit
UploadTables ==
    TablesOf(ClassRows) \cup {[i \in 1..n |-> PlainRow] : n \in {MAX_PRODUCTS, MAX_PRODUCTS + 1}}

BatchGemini ==
    {g \in GeminiOutcomes :
        \/ g.kind # "json"
        \/ /\ g.has_code /\ g.code = CodeHTS
           /\ g.confidence \in {Str(T40pct), Str(T60pct), Str(T150pct), Str(Tpct60)}
        \/ g.has_code /\ g.code = CodeNA /\ g.confidence = Str(T85pct)}

BatchResponses ==
    {r \in FallbackResponses :
        \/ r.kind \in {"raise", "no_json"}
        \/ r.kind = "json" /\ r.has_code /\ r.confidence = Num(<<"8", "5">>)
        \/ r.kind = "json" /\ ~r.has_code /\ r.confidence = Str(<<"1", "5", "0">>)}

DutyGemini ==
    {[kind |-> "search_error", msg |-> ErrSearch, has_code |-> FALSE, code |-> NoText,
      confidence |-> Absent, duty_rate |-> Absent],
     GeminiJson([has |-> TRUE, code |-> CodeHTS], Str(T85pct), Rate55),
     GeminiJson([has |-> TRUE, code |-> CodeHTS], Str(T40pct), RateFree),
     GeminiJson([has |-> TRUE, code |-> CodeHTS], Str(T85pct), RateNumber)}

DutyResponses == {FallbackJson(TRUE, CodeHTS2, Num(<<"8", "5">>))}

\* the outcomes above and a confident classification of duty-free goods
SummaryGemini ==
    DutyGemini \cup {GeminiJson([has |-> TRUE, code |-> CodeHTS], Str(T85pct), RateFree)}

(***************************************************************************)
(* Schema mapping: enhanced_batch_processor.py detect_and_map_columns.     *)
(* Column names are strings; a table is a sequence of columns, each with   *)
(* its cells in row order.                                                 *)
(***************************************************************************)
UpperCase == "ABCDEFGHIJKLMNOPQRSTUVWXYZ"
LowerCase == "abcdefghijklmnopqrstuvwxyz"
WordChars == "abcdefghijklmnopqrstuvwxyz0123456789_"

RECURSIVE index_of(_, _, _)
index_of(c, alphabet, i) ==
    IF i > Len(alphabet) THEN 0
    ELSE IF SubSeq(alphabet, i, i) = c THEN i ELSE index_of(c, alphabet, i + 1)

RECURSIVE first_nonblank(_, _)
first_nonblank(s, i) ==
    IF i <= Len(s) /\ SubSeq(s, i, i) = " " THEN first_nonblank(s, i + 1) ELSE i

RECURSIVE last_nonblank(_, _)
last_nonblank(s, j) ==
    IF j >= 1 /\ SubSeq(s, j, j) = " " THEN last_nonblank(s, j - 1) ELSE j

\* str.strip() of a column name
name_strip(s) == SubSeq(s, first_nonblank(s, 1), last_nonblank(s, Len(s)))

lower_at(c, i) == IF i = 0 THEN c ELSE SubSeq(LowerCase, i, i)

\* str.lower() of one character
lower_char(c) == lower_at(c, index_of(c, UpperCase, 1))

\* re.sub(r'[^\w\s]', '', c) of one lower-case character
kept_char(c) == IF c = " " \/ index_of(c, WordChars, 1) > 0 THEN c ELSE ""

RECURSIVE normalized_from(_, _)
normalized_from(s, i) ==
    IF i > Len(s) THEN ""
    ELSE kept_char(lower_char(SubSeq(s, i, i))) \o normalized_from(s, i + 1)

\* line 27: strip, lower, then drop every character that is neither a word
\* character nor white space
normalize_column(name) == normalized_from(name_strip(name), 1)

\* a regular expression of literal parts separated by '.*'; free_start: it
\* begins with '.*', free_end: it ends with '.*' (otherwise with '$')
Pattern(free_start, parts, free_end) ==
    [free_start |-> free_start, parts |-> parts, free_end |-> free_end]

Contains(parts) == Pattern(TRUE, parts, TRUE)
Exactly(word) == Pattern(FALSE, <<word>>, FALSE)
EndsWith(parts) == Pattern(TRUE, parts, FALSE)
FromTo(parts) == Pattern(FALSE, parts, FALSE)

\* the leftmost position >= from at which word occurs in s, or 0
RECURSIVE find(_, _, _)
find(s, word, from) ==
    IF from + Len(word) - 1 > Len(s) THEN 0
    ELSE IF SubSeq(s, from, from + Len(word) - 1) = word THEN from
    ELSE find(s, word, from + 1)

\* s ends with word, and that occurrence starts at or after from
ends_with(s, word, from) ==
    /\ Len(s) - Len(word) + 1 >= from
    /\ SubSeq(s, Len(s) - Len(word) + 1, Len(s)) = word

RECURSIVE match_parts(_, _, _, _)
RECURSIVE match_after(_, _, _, _)

\* the k-th part was found at position at (0: not found)
match_after(s, p, k, at) ==
    at > 0 /\ match_parts(s, p, k + 1, at + Len(p.parts[k]))

\* the parts k.. of pattern p match s from position from on
match_parts(s, p, k, from) ==
    IF k > Len(p.parts) THEN TRUE
    ELSE IF k = 1 /\ ~p.free_start
    THEN IF Len(p.parts) = 1 /\ ~p.free_end THEN s = p.parts[1]
         ELSE /\ Len(s) >= Len(p.parts[1])
              /\ SubSeq(s, 1, Len(p.parts[1])) = p.parts[1]
              /\ match_parts(s, p, 2, Len(p.parts[1]) + 1)
    ELSE IF k = Len(p.parts) /\ ~p.free_end THEN ends_with(s, p.parts[k], from)
    ELSE match_after(s, p, k, find(s, p.parts[k], from))

\* line 82: re.match(pattern, col)
re_match(pattern, col) == match_parts(col, pattern, 1, 1)

\* lines 36-73: column_patterns, in the order of the dict
column_patterns ==
    << [field |-> "product_name",
        patterns |-> << Contains(<<"product", "name">>), Contains(<<"item", "name">>),
                        Contains(<<"sku", "name">>), Exactly("name"), Exactly("product"),
                        Exactly("item"), Exactly("sku"), Exactly("title"),
                        Contains(<<"description", "1">>), Exactly("article"),
                        Exactly("merchandise"), Exactly("goods"), Exactly("commodity"),
                        FromTo(<<"part", "number">>) >>],
       [field |-> "description",
        patterns |-> << Exactly("description"), Exactly("desc"), Contains(<<"detail">>),
                        Contains(<<"specification">>), Contains(<<"description", "2">>),
                        Contains(<<"long", "desc">>), Contains(<<"full", "desc">>),
                        Exactly("spec"), Exactly("info"), EndsWith(<<"information">>),
                        Exactly("about"), Exactly("summary"), Exactly("overview"),
                        Exactly("features") >>],
       [field |-> "material",
        patterns |-> << Contains(<<"material">>), Contains(<<"composition">>),
                        Contains(<<"fabric">>), Contains(<<"made">>), Exactly("construction"),
                        Contains(<<"component">>), Contains(<<"ingredient">>),
                        Contains(<<"substance">>), EndsWith(<<"content">>) >>],
       [field |-> "intended_use",
        patterns |-> << Contains(<<"use">>), Contains(<<"purpose">>),
                        Contains(<<"application">>), Contains(<<"function">>),
                        EndsWith(<<"usage">>), Contains(<<"end", "use">>),
                        EndsWith(<<"category">>), EndsWith(<<"type">>) >>],
       [field |-> "origin",
        patterns |-> << Contains(<<"origin">>), Contains(<<"country">>), EndsWith(<<"coo">>),
                        Contains(<<"made", "in">>), Contains(<<"source">>),
                        EndsWith(<<"from">>), Contains(<<"manufactured">>),
                        EndsWith(<<"location">>) >>],
       [field |-> "quantity",
        patterns |-> << Contains(<<"quantity">>), Contains(<<"qty">>), Contains(<<"units">>),
                        Contains(<<"pieces">>), EndsWith(<<"count">>), EndsWith(<<"amount">>),
                        Exactly("qty"), Exactly("q") >>],
       [field |-> "unit_value",
        patterns |-> << Contains(<<"unit", "price">>), Contains(<<"unit", "value">>),
                        Contains(<<"price", "per">>), Exactly("price"), Exactly("cost"),
                        Contains(<<"unit", "cost">>), Exactly("value") >>],
       [field |-> "customs_value",
        patterns |-> << Contains(<<"customs", "value">>), Contains(<<"total", "value">>),
                        Contains(<<"invoice">>), Contains(<<"declared">>), Exactly("total"),
                        Contains(<<"extended">>), EndsWith(<<"amount">>) >>] >>

\* lines 81-82: some pattern of the list matches the column name
matches_any(patterns, col) == \E i \in 1..Len(patterns) : re_match(patterns[i], col)

Column(name, text, cells) == [name |-> name, text |-> text, cells |-> cells]

\* the result of a mapping: the standardized table and mapping_info
NoMapping == [done |-> FALSE, raised |-> FALSE, columns |-> <<>>, detected_mappings |-> <<>>,
              created_columns |-> <<>>, columns_mapped |-> {}]

\* lines 26-27: df.copy() with normalized column names; original_columns
normalized(raw) ==
    [i \in 1..Len(raw) |->
        [name |-> normalize_column(raw[i].name), original |-> raw[i].name,
         text |-> raw[i].text, cells |-> raw[i].cells]]

\* two columns carry the same name: df[col] is then a table, not a column,
\* and its assignment to one column of standardized_df raises ValueError
duplicates(d) == \E i, j \in 1..Len(d) : i # j /\ d[i].name = d[j].name

has_column(columns, name) == \E i \in 1..Len(columns) : columns[i].name = name

\* table[name] = values: in place when the column exists, else appended
set_column(columns, name, text, cells) ==
    IF has_column(columns, name)
    THEN [i \in 1..Len(columns) |->
             IF columns[i].name = name THEN Column(name, text, cells) ELSE columns[i]]
    ELSE Append(columns, Column(name, text, cells))

\* table[name]
column_of(columns, name) == columns[CHOOSE i \in 1..Len(columns) : columns[i].name = name]

\* lines 77-93: the first column, in column order, that is not yet mapped
\* and whose name matches one of the patterns (0: none)
RECURSIVE first_match(_, _, _, _)
first_match(d, columns_mapped, patterns, i) ==
    IF i > Len(d) THEN 0
    ELSE IF d[i].name \notin columns_mapped /\ matches_any(patterns, d[i].name) THEN i
    ELSE first_match(d, columns_mapped, patterns, i + 1)

\* a matching step that does not mark the column as mapped
map_field_reusing(d, acc, field, i) ==
    IF i = 0 THEN acc
    ELSE [acc EXCEPT !.columns = set_column(@, field, d[i].text, d[i].cells),
                     !.detected_mappings = Append(@, [field |-> field,
                                                      column |-> d[i].original])]

\* lines 83-86: the column is taken for the field
map_field(d, acc, field, i) ==
    IF i = 0 THEN acc
    ELSE [acc EXCEPT !.columns = set_column(@, field, d[i].text, d[i].cells),
                     !.detected_mappings = Append(@, [field |-> field,
                                                      column |-> d[i].original]),
                     !.columns_mapped = @ \cup {d[i].name}]

\* lines 76-93: the canonical fields in the order of column_patterns
RECURSIVE map_fields(_, _, _)
map_fields(d, acc, k) ==
    IF k > Len(column_patterns) THEN acc
    ELSE map_fields(d, map_field(d, acc, column_patterns[k].field,
                                 first_match(d, acc.columns_mapped,
                                             column_patterns[k].patterns, 1)),
                    k + 1)

\* lines 95-98: the columns that were not mapped, under their normalized names
RECURSIVE copy_unmapped(_, _, _)
copy_unmapped(d, acc, i) ==
    IF i > Len(d) THEN acc
    ELSE copy_unmapped(d, IF d[i].name \in acc.columns_mapped THEN acc
                          ELSE [acc EXCEPT !.columns = set_column(@, d[i].name, d[i].text,
                                                                  d[i].cells)],
                       i + 1)

\* df.select_dtypes(include=['object', 'string']).columns
text_columns(d) == SelectSeq(d, LAMBDA c : c.text)

\* len(df): every column has one cell per row
n_rows(columns) == Len(columns[1].cells)

\* lines 101-111: product_name when no column matched
create_product_name(acc, text_cols) ==
    IF has_column(acc.columns, "product_name") THEN acc
    ELSE IF Len(text_cols) > 0
    THEN [acc EXCEPT !.columns = set_column(@, "product_name", TRUE, text_cols[1].cells),
                     !.created_columns = Append(@, [field |-> "product_name",
                                                    how |-> "Created from " \o
                                                            text_cols[1].name])]
    ELSE [acc EXCEPT !.columns = set_column(@, "product_name", TRUE,
                                            [r \in 1..n_rows(acc.columns) |->
                                                StrCell(ProductLabel(r))]),
                     !.created_columns = Append(@, [field |-> "product_name",
                                                    how |-> "Auto-generated"])]

\* line 119: ' '.join(str(val) for val in x if val) over the text columns of row r
RECURSIVE join_row(_, _, _, _)
join_row(text_cols, r, i, joined) ==
    IF i > Len(text_cols) THEN joined
    ELSE join_row(text_cols, r, i + 1,
                  IF text_cols[i].cells[r].v = "" THEN joined
                  ELSE IF joined = "" THEN text_cols[i].cells[r].v
                  ELSE joined \o " " \o text_cols[i].cells[r].v)

\* lines 113-128: description when no column matched
create_description(acc, text_cols) ==
    IF has_column(acc.columns, "description") THEN acc
    ELSE IF Len(text_cols) > 1
    THEN [acc EXCEPT !.columns = set_column(@, "description", TRUE,
                                            [r \in 1..n_rows(acc.columns) |->
                                                StrCell(join_row(text_cols, r, 1, ""))]),
                     !.created_columns = Append(@, [field |-> "description",
                                                    how |-> "Combined from text columns"])]
    ELSE IF Len(text_cols) = 1
    THEN [acc EXCEPT !.columns = set_column(@, "description", TRUE, text_cols[1].cells),
                     !.created_columns = Append(@, [field |-> "description",
                                                    how |-> "Copied from " \o
                                                            text_cols[1].name])]
    ELSE [acc EXCEPT !.columns = set_column(@, "description", TRUE,
                                            column_of(acc.columns, "product_name").cells),
                     !.created_columns = Append(@, [field |-> "description",
                                                    how |-> "Copied from product_name"])]

\* lines 131-134 and 137-140: a field that is still missing gets a column of
\* one value ('' for the optional fields, NaN for the numeric ones)
RECURSIVE fill_missing(_, _, _, _, _)
fill_missing(acc, fields, k, text, cell) ==
    IF k > Len(fields) THEN acc
    ELSE fill_missing(IF has_column(acc.columns, fields[k]) THEN acc
                      ELSE [acc EXCEPT !.columns = set_column(@, fields[k], text,
                                                              [r \in 1..n_rows(acc.columns) |->
                                                                  cell])],
                      fields, k + 1, text, cell)

optional_fields == <<"material", "intended_use", "origin">>
numeric_fields == <<"quantity", "unit_value", "customs_value">>

\* lines 100-142 on the table with normalized names
created_and_filled(d, acc) ==
    fill_missing(fill_missing(create_description(create_product_name(acc, text_columns(d)),
                                                 text_columns(d)),
                              optional_fields, 1, TRUE, StrCell("")),
                 numeric_fields, 1, FALSE, NaNCell)

\* lines 24-142 on the table with normalized names
mapped_table(d) ==
    IF duplicates(d) THEN [NoMapping EXCEPT !.done = TRUE, !.raised = TRUE]
    ELSE created_and_filled(d, copy_unmapped(d, map_fields(d, [NoMapping EXCEPT !.done = TRUE],
                                                          1), 1))

\* EnhancedBatchProcessor.detect_and_map_columns
detect_and_map_columns(raw) == mapped_table(normalized(raw))

\* lines 160-162: the standardized columns are written into the uploaded table
RECURSIVE written_back(_, _, _)
written_back(raw, columns, i) ==
    IF i > Len(columns) THEN raw
    ELSE written_back(set_column(raw, columns[i].name, columns[i].text, columns[i].cells),
                      columns, i + 1)

MapIdle == df = <<>> /\ mapPc = "none" /\ validated = NoMapping /\ standardized = NoMapping

\* process_batch_with_duties line 199, on a table as it was read
MapColumns ==
    /\ page = "mapper" /\ mapPc = "raw"
    /\ standardized' = detect_and_map_columns(df)
    /\ mapPc' = "mapped"
    /\ UNCHANGED <<page, df, validated, normVars, singleVars, dutyVars, batchVars>>

\* lines 157-162: the mapping of the validation and its write-back
validate_mapped(m) ==
    /\ validated' = m
    /\ df' = IF m.raised THEN df ELSE written_back(df, m.columns, 1)
    /\ mapPc' = IF m.raised THEN "failed" ELSE "validated"

\* validate_input_file on a table of 1..100 rows
ValidateFile ==
    /\ page = "mapper" /\ mapPc = "raw"
    /\ validate_mapped(detect_and_map_columns(df))
    /\ UNCHANGED <<page, standardized, normVars, singleVars, dutyVars, batchVars>>

\* process_batch_with_duties line 199, on the table that validation wrote to
MapValidated ==
    /\ page = "mapper" /\ mapPc = "validated"
    /\ standardized' = detect_and_map_columns(df)
    /\ mapPc' = "remapped"
    /\ UNCHANGED <<page, df, validated, normVars, singleVars, dutyVars, batchVars>>

\* raw tables: columns with distinct headers
TextCells(a, b) == [r \in 1..MapRows |-> IF r = 1 THEN a ELSE b]

RawColumns ==
    {Column("Product Name", TRUE, TextCells(StrCell("Cotton T-Shirt"), NaNCell)),
     Column("item", TRUE, TextCells(StrCell("SKU-1"), StrCell("SKU-2"))),
     Column("Description", TRUE, TextCells(StrCell("crew neck"), StrCell("denim"))),
     Column("Fabric", TRUE, TextCells(StrCell("cotton"), StrCell("wool"))),
     Column("material", TRUE, TextCells(StrCell("jersey"), NaNCell)),
     Column("size", TRUE, TextCells(NaNCell, StrCell("XL"))),
     Column("Weight", FALSE, TextCells(NumberCell("12"), NumberCell("7"))),
     Column("weight ", FALSE, TextCells(NumberCell("3"), NumberCell("4"))),
     Column("Qty", FALSE, TextCells(NumberCell("2"), NumberCell("5"))),
     Column("Amount", FALSE, TextCells(NumberCell("1000"), NaNCell))}

RawTables ==
    {t \in UNION {[1..n -> RawColumns] : n \in 1..MaxCols} :
        \A i, j \in 1..Len(t) : i # j => t[i].name # t[j].name}

\* the characters of a string
chars(s) == [i \in 1..Len(s) |-> SubSeq(s, i, i)]

\* a cell of quantity, unit_value or customs_value as a row of standardized_df
\* holds it: NaN, a number, or a text that float() rejects
number_cell(c) ==
    IF c.kind = "nan" THEN NaN
    ELSE IF c.kind = "num" THEN NumCell(pyfloat(chars(c.v)).n)
    ELSE TextCell

\* line 204: row r of standardized_df.iterrows()
canonical_row(columns, r) ==
    [product_name  |-> column_of(columns, "product_name").cells[r].v,
     description   |-> column_of(columns, "description").cells[r].v,
     quantity      |-> number_cell(column_of(columns, "quantity").cells[r]),
     unit_value    |-> number_cell(column_of(columns, "unit_value").cells[r]),
     customs_value |-> number_cell(column_of(columns, "customs_value").cells[r]),
     origin        |-> column_of(columns, "origin").cells[r]]

\* lines 199-204: the rows of the standardized table
canonical_rows(columns) == [r \in 1..n_rows(columns) |-> canonical_row(columns, r)]

\* uploaded tables with value data, with and without a column of origins
RawRow(name, origin, quantity, unit_value, customs_value) ==
    [name |-> name, origin |-> origin, quantity |-> quantity, unit_value |-> unit_value,
     customs_value |-> customs_value]

SummaryRows ==
    {RawRow("Cotton T-Shirt", StrCell("CN"), NaNCell, NaNCell, NumberCell("10000")),
     RawRow("Denim Jacket", NaNCell, NumberCell("2"), NumberCell("500"), NaNCell),
     RawRow("Wool Scarf", StrCell("MX"), NumberCell("2"), NumberCell("500"), NumberCell("-100")),
     RawRow("Silk Tie", StrCell("CN"), NumberCell("0"), NumberCell("500"), StrCell("TBD")),
     RawRow("Sample", StrCell("MX"), NaNCell, NaNCell, NaNCell)}

raw_column(header, rows, field) ==
    Column(header, \E r \in 1..Len(rows) : rows[r][field].kind = "str",
           [r \in 1..Len(rows) |-> rows[r][field]])

raw_table(rows, with_origin) ==
    <<Column("Product Name", TRUE, [r \in 1..Len(rows) |-> StrCell(rows[r].name)]),
      Column("Description", TRUE, [r \in 1..Len(rows) |-> StrCell("sample goods")]),
      raw_column("Quantity", rows, "quantity"),
      raw_column("Unit Value", rows, "unit_value"),
      raw_column("Customs Value", rows, "customs_value")>>
    \o (IF with_origin THEN <<raw_column("Origin", rows, "origin")>> ELSE <<>>)

SummaryTables ==
    {raw_table(rows, o) : rows \in UNION {[1..n -> SummaryRows] : n \in 0..MaxRows},
                          o \in BOOLEAN}

(***************************************************************************)
(* Specifications.  `page` is the page of the app whose handlers run.      *)
(***************************************************************************)
\* the normalizers applied to every confidence value of the bounded input set
InitNorm ==
    /\ page = "none"
    /\ confIn \in ConfValues /\ normOut = NoOut /\ RateIdle
    /\ SingleIdle /\ MapIdle /\ DutyIdle /\ BatchIdle
NextNorm == Normalize
SpecNorm == InitNorm /\ [][NextNorm]_vars

\* parse_duty_rate applied to every duty-rate value of the bounded input set
InitRates ==
    /\ page = "none"
    /\ confIn = PyNone /\ normOut = NoOut
    /\ rateIn \in RateValues /\ rateOut = NoRateOut
    /\ SingleIdle /\ MapIdle /\ DutyIdle /\ BatchIdle
NextRates == ParseRate
SpecRates == InitRates /\ [][NextRates]_vars

\* single classifications from the classifier page
InitSingle == page = "classifier" /\ NormIdle /\ SingleIdle /\ MapIdle /\ DutyIdle /\ BatchIdle
NextSingle == ClassifyClick \/ SetEnableFallback

\* batch runs with every classification outcome, rows without value data
InitBatch ==
    /\ page = "batch"
    /\ NormIdle /\ SingleIdle /\ MapIdle /\ DutyIdle
    /\ table \in TablesOf(ClassRows)
    /\ batchCfg \in [fallback : BOOLEAN, calculate_duties : BOOLEAN,
                     shipping_method : {"sea"}, include_mpf : {TRUE}, include_hmf : {TRUE}]
    /\ idx = 0 /\ pc = "idle" /\ cur = NoCur /\ results = <<>> /\ progressLog = <<>>
    /\ upload = NoUpload /\ summary = NoSummary
NextBatch ==
    \/ StartBatch \/ ProgressRow \/ ClassifyRow(BatchGemini) \/ FallbackRow(BatchResponses)
    \/ RecordRow \/ DutyRow \/ AppendRow

\* no call of the classifier, the fallback or the calculator hangs for ever
CallsReturn == []<>(pc # "classify") /\ []<>(pc # "fallback") /\ []<>(pc # "duty")

\* a batch run in which every collaborator call returns or raises; the loop
\* of lines 204-267 is straight-line code, so its own steps are taken
SpecBatchRun ==
    /\ InitBatch /\ [][NextBatch]_vars
    /\ WF_vars(ProgressRow) /\ WF_vars(RecordRow) /\ WF_vars(AppendRow)
    /\ CallsReturn

\* a file uploaded on the batch page
InitUpload ==
    /\ page = "batch"
    /\ NormIdle /\ SingleIdle /\ MapIdle /\ DutyIdle
    /\ table \in UploadTables
    /\ batchCfg = [fallback |-> TRUE, calculate_duties |-> FALSE,
                   shipping_method |-> "sea", include_mpf |-> TRUE, include_hmf |-> TRUE]
    /\ idx = 0 /\ pc = "uploaded" /\ cur = NoCur /\ results = <<>> /\ progressLog = <<>>
    /\ upload = NoUpload /\ summary = NoSummary
NextUpload == UploadFile

\* classification, from the classifier page or as a batch
InitClassify == InitSingle \/ InitBatch \/ InitUpload
NextClassify == NextSingle \/ NextBatch \/ NextUpload
SpecClassify == InitClassify /\ [][NextClassify]_vars

\* the duty calculator page
InitDuty ==
    /\ page = "duty"
    /\ NormIdle /\ SingleIdle /\ MapIdle /\ BatchIdle
    /\ calcCfg \in [shipping_method : ShippingMethods, include_mpf : BOOLEAN,
                    include_hmf : BOOLEAN]
    /\ calculation_history = <<>>
    /\ dutyOut = NoDutyOut
    /\ invoice = NoInvoiceCall
NextDuty == CalculateDuties \/ CalculateFromInvoice \/ AttachInvoice \/ CompareRates

\* batch runs with duty calculation over rows with value data
InitBatchDuty ==
    /\ page = "batch"
    /\ NormIdle /\ SingleIdle /\ MapIdle /\ DutyIdle
    /\ table \in TablesOf(DutyRows)
    /\ batchCfg \in [fallback : {TRUE}, calculate_duties : {TRUE},
                     shipping_method : ShippingMethods, include_mpf : BOOLEAN,
                     include_hmf : {TRUE}]
    /\ idx = 0 /\ pc = "idle" /\ cur = NoCur /\ results = <<>> /\ progressLog = <<>>
    /\ upload = NoUpload /\ summary = NoSummary
NextBatchDuty ==
    \/ StartBatch \/ ProgressRow \/ ClassifyRow(DutyGemini) \/ FallbackRow(DutyResponses)
    \/ RecordRow \/ DutyRow \/ AppendRow

\* duties, from the calculator page or in a batch
InitDuties == InitDuty \/ InitBatchDuty
NextDuties == NextDuty \/ NextBatchDuty
SpecDuties == InitDuties /\ [][NextDuties]_vars

\* the schema mapping, run directly or after validation
InitMap ==
    /\ page = "mapper"
    /\ NormIdle /\ SingleIdle /\ DutyIdle /\ BatchIdle
    /\ df \in RawTables /\ mapPc = "raw"
    /\ validated = NoMapping /\ standardized = NoMapping
NextMap == MapColumns \/ ValidateFile \/ MapValidated
SpecMap == InitMap /\ [][NextMap]_vars

\* batch runs with duty calculation on uploaded tables, each followed by its
\* summary; `table` is what line 199 makes of the uploaded table
InitSummary ==
    /\ page = "batch"
    /\ NormIdle /\ SingleIdle /\ DutyIdle
    /\ df \in SummaryTables /\ mapPc = "mapped"
    /\ validated = NoMapping /\ standardized = detect_and_map_columns(df)
    /\ table = canonical_rows(standardized.columns)
    /\ batchCfg = [fallback |-> TRUE, calculate_duties |-> TRUE, shipping_method |-> "sea",
                   include_mpf |-> TRUE, include_hmf |-> TRUE]
    /\ idx = 0 /\ pc = "idle" /\ cur = NoCur /\ results = <<>> /\ progressLog = <<>>
    /\ upload = NoUpload /\ summary = NoSummary
NextSummary ==
    \/ StartBatch \/ ProgressRow \/ ClassifyRow(SummaryGemini) \/ FallbackRow(DutyResponses)
    \/ RecordRow \/ DutyRow \/ AppendRow \/ GenerateDutySummary
SpecSummary == InitSummary /\ [][NextSummary]_vars

Init == InitClassify
Next == NextClassify
Spec == SpecClassify

(***************************************************************************)
(* Properties                                                              *)
(***************************************************************************)
\* app.py lines 464-468 and 829-833: the number read from a confidence field
confidence_val(x) == pyfloat(replace_pct(str(x)))

\* the code of a primary result is usable (not empty, "N/A" or "ERROR")
UsableCode(d) ==
    d.has_code /\ upper(strip(d.recommended_code)) \notin {<<>>, CodeNA, CodeERROR}

\* the single request got a result from the primary classifier
SingleAnswered == request.outcome \in {"stored", "error_shown"} /\ ~request.primary.raised

\* the batch row in progress got a result from the primary and is past routing
RowRouted == pc \in {"record", "duty", "append"} /\ ~cur.primary.raised

\* C1: with fallback enabled and a primary confidence below 50 the fallback is
\* invoked exactly once and its output is the final result; with a usable
\* code and confidence 50 or more, or with fallback disabled, it is never
\* invoked (single classification and batch rows)
C1_FallbackRouting ==
    /\ SingleAnswered =>
          /\ (request.enabled /\ DLt(request.conf_val, Whole(50)))
                => /\ request.fallback_calls = 1
                   /\ request.outcome = "stored"
                   /\ request.result.source = "fallback"
                   /\ request.result = request.fallback.val
          /\ (\/ UsableCode(request.primary.val) /\ ~DLt(request.conf_val, Whole(50))
              \/ ~request.enabled)
                => /\ request.fallback_calls = 0
                   /\ request.result.source = "primary"
    /\ RowRouted =>
          /\ (batchCfg.fallback /\ DLt(cur.confidence, Whole(50)))
                => /\ cur.fallback_calls = 1
                   /\ cur.classification = cur.fallback.val
                   /\ pc = "append" =>
                         /\ cur.row_result.hs_code = cur.fallback.val.recommended_code
                         /\ cur.row_result.confidence = cur.fallback.val.confidence
          /\ (~DLt(cur.confidence, Whole(50)) \/ ~batchCfg.fallback)
                => /\ cur.fallback_calls = 0
                   /\ cur.classification = cur.primary.val

C1_Witness ==
    /\ request.outcome = "stored" /\ request.enabled
    /\ request.primary.val.confidence = Str(T40pct)
    /\ UsableCode(request.primary.val)
    /\ request.fallback_calls = 1
    /\ request.result.source = "fallback"

\* C2: with fallback enabled a primary result whose code is empty, "N/A" or
\* "ERROR" is routed to the fallback whatever its confidence, in a single
\* classification and in every batch row
C2_MissingCodeRouted ==
    /\ (SingleAnswered /\ request.enabled /\ ~UsableCode(request.primary.val))
          => request.fallback_calls = 1
    /\ (RowRouted /\ batchCfg.fallback /\ ~UsableCode(cur.primary.val))
          => cur.fallback_calls = 1

\* C3 as claimed: a primary that raises gives, without any fallback call, a
\* result with code "ERROR", confidence -1 and needsReview = true
C3_ErrorResultOnRaise ==
    /\ (request.outcome # "none" /\ request.primary.raised)
          => /\ request.fallback_calls = 0
             /\ request.outcome = "stored"
             /\ request.result.recommended_code = CodeERROR
             /\ confidence_val(request.result.confidence).n = MinusOne
             /\ request.result.needs_review
    /\ (pc = "append" /\ cur.primary.raised)
          => /\ cur.fallback_calls = 0
             /\ cur.row_result.hs_code = CodeERROR
             /\ confidence_val(cur.row_result.confidence).n = MinusOne

\* C3 amended: a primary that raises is never followed by a fallback call;
\* the batch row is recorded as Failed with code "ERROR", confidence "0%" and
\* the error in its reasoning; a single classification stores no result and
\* shows the error
C3_FailFast ==
    /\ (request.outcome # "none" /\ request.primary.raised)
          => /\ request.fallback_calls = 0
             /\ request.outcome = "error_shown"
             /\ request.result = NoDict
             /\ request.error = <<"Classification error: ", request.primary.err>>
    /\ (pc # "classify" /\ cur.primary.raised)
          => /\ cur.fallback_calls = 0
             /\ cur.row_result.hs_code = CodeERROR
             /\ cur.row_result.confidence = Str(T0pct)
             /\ cur.row_result.classification_status = "Failed"
             /\ cur.row_result.reasoning = <<"Classification error: ", cur.primary.err>>
             /\ ~cur.row_result.duty.has_duty
             /\ pc \in {"append", "progress", "done"}
             /\ pc # "append" => results[Len(results)] = cur.row_result

C3_Witness ==
    /\ pc = "done" /\ batchCfg.fallback /\ cur.primary.raised
    /\ results[Len(results)].classification_status = "Failed"

\* the normalized confidence of the final result of a request
NormalizedFinal ==
    IF request.fallback_calls = 1 THEN _float_conf(request.result.confidence)
    ELSE request.conf_val

\* C4: needsReview of every final result, from the primary or from the
\* fallback, is true exactly when its normalized confidence is below 80,
\* whatever its code and whatever the 50% routing decided
C4_ReviewIffBelow80 ==
    request.outcome = "stored" =>
        /\ request.result.has_review
        /\ request.result.needs_review <=> DLt(NormalizedFinal, Whole(80))

\* a confidence field holds a number from 0 to 100
InRange(x) ==
    LET f == confidence_val(x)
    IN  f.ok /\ DLe(Whole(0), f.n) /\ DLe(f.n, Whole(100))

\* C5: every stored single-classification result and every batch output row
\* has a confidence between 0 and 100
C5_ConfidenceInRange ==
    /\ \A i \in 1..Len(classification_history) :
          InRange(classification_history[i].confidence)
    /\ \A i \in 1..Len(results) : InRange(results[i].confidence)

\* the inputs that the normalizer contract names for 87
Examples87 == {Str(T87pct), Num(T087), Num(T87), Str(T87)}

\* C6: "87%", 0.87, 87 and "87" are normalized to 87 by every normalizer,
\* and the three normalizers give the same percentage for every input that
\* the single-classification normalizer accepts
C6_NormalizersAgree ==
    normOut.done =>
        /\ confIn \in Examples87 =>
              /\ normOut.float_conf = Whole(87)
              /\ normOut.parse_confidence = Whole(87)
              /\ normOut.to_pct = T87pct
        /\ normOut.float_conf # MinusOne =>
              /\ normOut.parse_confidence = normOut.float_conf
              /\ normOut.to_pct = FormatPct0(normOut.float_conf)

\* no number is left in the text even when every "%" is removed
Malformed(x) == ~pyfloat(replace_pct(str(x))).ok

\* C7: every malformed confidence is normalized to -1 by the normalizer of
\* the single classification and by the normalizer of the batch, and -1 is
\* below the routing threshold
C7_MalformedGivesMinusOne ==
    (normOut.done /\ Malformed(confIn)) =>
        /\ normOut.float_conf = MinusOne
        /\ normOut.parse_confidence = MinusOne
        /\ DLt(normOut.float_conf, Whole(50))

\* the message of a failed fallback call
FailureMessage(resp) ==
    CASE resp.kind = "raise" -> resp.msg
      [] resp.kind = "no_json" -> ErrNoJson
      [] OTHER -> ErrBadJson

\* a fallback call returned normally; a failed one gave the N/A result
Contained(calls, resp, ret) ==
    calls = 1 =>
        /\ ~ret.raised
        /\ resp.kind \in {"raise", "no_json", "bad_json"} =>
              /\ ret.val.recommended_code = CodeNA
              /\ ret.val.has_review /\ ret.val.needs_review
              /\ ret.val.reasoning = <<"LLM fallback failed: ", FailureMessage(resp)>>

\* C8: a fallback whose model call raises or whose response holds no JSON
\* object returns code "N/A", needsReview = true and the failure message in
\* its reasoning; the request or row goes on with that result
C8_FallbackContained ==
    /\ Contained(request.fallback_calls, request.response, request.fallback)
    /\ request.fallback_calls = 1 =>
          request.outcome = "stored" /\ request.result = request.fallback.val
    /\ Contained(cur.fallback_calls, cur.response, cur.fallback)
    /\ (cur.fallback_calls = 1 /\ pc = "append") =>
          /\ cur.row_result.classification_status = "Success"
          /\ cur.row_result.hs_code = cur.fallback.val.recommended_code

C8_Witness ==
    /\ request.outcome = "stored"
    /\ request.fallback_calls = 1
    /\ request.response.kind = "no_json"
    /\ request.result.recommended_code = CodeNA
    /\ request.result.needs_review

\* the processing fee of one calculation
FeeClamped(customs_value, mpf, include_mpf) ==
    LET raw == DMul(customs_value, Dec(3464, 6))
        lo  == Dec(2775, 2)
        hi  == Dec(53840, 2)
    IN  /\ (include_mpf /\ DLt(Whole(0), customs_value)) =>
              /\ DLe(lo, mpf) /\ DLe(mpf, hi)
              /\ (DLe(lo, raw) /\ DLe(raw, hi)) => mpf = raw
              /\ DLt(raw, lo) => mpf = lo
              /\ DLt(hi, raw) => mpf = hi
        /\ ~include_mpf => mpf = Whole(0)

\* C9: with the fee included and a positive customs value the processing fee
\* is customsValue * 0.003464 clamped to [27.75, 538.40]; it is 0 when the
\* fee is not included
C9_ProcessingFeeClamp ==
    /\ dutyOut.op # "none" =>
          FeeClamped(dutyOut.result.customs_value, dutyOut.result.mpf, dutyOut.include_mpf)
    /\ dutyOut.op = "compare_rates" =>
          FeeClamped(dutyOut.second.customs_value, dutyOut.second.mpf, dutyOut.include_mpf)
    /\ (pc = "append" /\ cur.row_result.duty.called) =>
          FeeClamped(cur.row_result.customs_value.n, cur.row_result.duty.mpf,
                     batchCfg.include_mpf)

C9_Witness ==
    /\ dutyOut.op = "calculate_duties" /\ dutyOut.include_mpf
    /\ dutyOut.result.customs_value = Whole(200000)
    /\ dutyOut.result.mpf = Dec(53840, 2)

CostIdentity(customs_value, base_duty, mpf, hmf, total_fees, landed) ==
    /\ total_fees = DAdd(DAdd(base_duty, mpf), hmf)
    /\ landed = DAdd(customs_value, total_fees)

BreakdownIdentity(b) ==
    CostIdentity(b.customs_value, b.base_duty, b.mpf, b.hmf, b.total_duties_and_fees,
                 b.total_landed_cost)

RowIdentity(row) ==
    row.duty.has_duty =>
        /\ row.customs_value.kind = "num"
        /\ CostIdentity(row.customs_value.n, row.duty.base_duty, row.duty.mpf,
                        row.duty.hmf, row.duty.total_duties, row.duty.total_landed_cost)

\* C10: in every breakdown of the calculator and in every batch row with duty
\* fields, totalFees = baseDuty + processingFee + maintenanceFee and
\* totalLandedCost = customsValue + totalFees
C10_CostIdentity ==
    /\ \A i \in 1..Len(calculation_history) : BreakdownIdentity(calculation_history[i])
    /\ dutyOut.op # "none" => BreakdownIdentity(dutyOut.result)
    /\ dutyOut.op = "compare_rates" => BreakdownIdentity(dutyOut.second)
    /\ \A i \in 1..Len(results) : RowIdentity(results[i])
    /\ pc = "append" => RowIdentity(cur.row_result)

C10_Witness ==
    /\ Len(results) >= 1
    /\ results[1].duty.called
    /\ DLt(Whole(0), results[1].duty.base_duty)
    /\ DLt(Whole(0), results[1].duty.hmf)
    /\ results[1].duty.total_landed_cost
          = DAdd(results[1].customs_value.n, results[1].duty.total_duties)

(***************************************************************************)
(* C11: every breakdown the calculator computes for a non-negative customs *)
(* value has base duty, processing fee, maintenance fee, total fees and    *)
(* total landed cost >= 0.                                                 *)
(***************************************************************************)
NonNegative(d) == DLe(Whole(0), d)

FeesNonNegative(b) ==
    NonNegative(b.customs_value) =>
        /\ NonNegative(b.base_duty) /\ NonNegative(b.mpf) /\ NonNegative(b.hmf)
        /\ NonNegative(b.total_duties_and_fees) /\ NonNegative(b.total_landed_cost)

\* C11: all fees and the landed cost of every computed breakdown are >= 0
C11_NonNegativeFees ==
    \A i \in 1..Len(calculation_history) : FeesNonNegative(calculation_history[i])

(***************************************************************************)
(* C12: parse_duty_rate on a text.  Empty text and the words Free, N/A,    *)
(* None in any letter case give 0; a text with "%" gives the number that   *)
(* stands before the first "%" and before the first "+", divided by 100,   *)
(* and 0 when that part is not a number; every other text gives 0.  No     *)
(* text raises.                                                            *)
(***************************************************************************)
\* position of the first c in t, Len(t) + 1 without one
FirstIndex(t, c) ==
    IF \E i \in 1..Len(t) : t[i] = c
    THEN CHOOSE i \in 1..Len(t) : t[i] = c /\ \A j \in 1..(i - 1) : t[j] # c
    ELSE Len(t) + 1

\* the part of t before the first "%" and before the first "+"
LeadingPart(t) ==
    LET p == FirstIndex(t, "%")
        q == FirstIndex(t, "+")
    IN  SubSeq(t, 1, (IF p < q THEN p ELSE q) - 1)

ExpectedRate(t, rate) ==
    IF t = NoText \/ lower(t) \in {lower(RateFree.text), lower(RateNA.text),
                                    lower(RateNone.text)}
    THEN rate = Whole(0)
    ELSE IF contains(t, "%") /\ pyfloat(LeadingPart(t)).ok
    THEN Times100(rate) = pyfloat(LeadingPart(t)).n
    ELSE rate = Whole(0)

\* C12: the rate parse_duty_rate returns for a text, and it never raises on a text
C12_DutyRateParsing ==
    rateOut.done /\ rateIn.kind = "str" =>
        ~rateOut.raised /\ ExpectedRate(rateIn.text, rateOut.rate)

C12_Witness ==
    /\ rateOut.done /\ rateIn = Rate34plus /\ ~rateOut.raised
    /\ rateOut.rate = Dec(34, 3)

(***************************************************************************)
(* C13: the calculation history is append-only: no step removes or         *)
(* reorders an entry and an entry that has been appended is never changed  *)
(* afterwards.                                                             *)
(***************************************************************************)
HistoryKept ==
    /\ Len(calculation_history') >= Len(calculation_history)
    /\ \A i \in 1..Len(calculation_history) :
          calculation_history'[i] = calculation_history[i]

\* C13: every step keeps the entries the history already has
C13_AppendOnlyHistory == [][HistoryKept]_vars

(***************************************************************************)
(* C14: compare_rates calls calculate_duties with the standard and with    *)
(* the preferential rate on the same customs value; savings is the         *)
(* difference of the two total fees and savings_percent is                 *)
(* savings / standard fees * 100, and 0 when the standard fees are 0.      *)
(***************************************************************************)
\* two quotients with equal numerator and denominator, or both zero
SameRatio(a, b) == a = b \/ (a.num.m = 0 /\ b.num.m = 0)

ClaimedSavingsPercent(savings, standard_fees) ==
    IF standard_fees = Whole(0) THEN RatioZero
    ELSE Ratio(Times100(savings), standard_fees)

\* C14: the two breakdowns, savings and savings_percent of a comparison
C14_RateComparison ==
    dutyOut.op = "compare_rates" =>
        /\ Len(calculation_history) >= 2
        /\ calculation_history[Len(calculation_history) - 1] = dutyOut.result
        /\ calculation_history[Len(calculation_history)] = dutyOut.second
        /\ dutyOut.result.customs_value = dutyOut.second.customs_value
        /\ dutyOut.savings = DSub(dutyOut.result.total_duties_and_fees,
                                  dutyOut.second.total_duties_and_fees)
        /\ SameRatio(dutyOut.savings_percent,
                     ClaimedSavingsPercent(dutyOut.savings,
                                           dutyOut.result.total_duties_and_fees))

(***************************************************************************)
(* C15: an uploaded table with no rows or with more than 100 rows is       *)
(* rejected with the explanatory reason shown and none of its rows is      *)
(* classified; a table with 1 to 100 rows is accepted for processing.      *)
(***************************************************************************)
\* C15: the outcome of the upload handler by the size of the table
C15_InputSizeValidation ==
    pc = "shown" =>
        IF Len(table) = 0 \/ Len(table) > 100
        THEN upload.outcome = "rejected" /\ upload.shown.kind = "reason" /\ results = <<>>
        ELSE upload.outcome = "accepted"

(***************************************************************************)
(* C16: a batch run over n rows is never aborted by a row whose            *)
(* classification raises: it ends with exactly n output rows in the order  *)
(* of the input, the rows whose classification raised are Failed and all   *)
(* other rows are Success.                                                 *)
(***************************************************************************)
\* the output rows are the input rows, in order
RowsInOrder ==
    /\ Len(results) <= Len(table)
    /\ \A i \in 1..Len(results) :
          /\ results[i].product_name = table[i].product_name
          /\ results[i].description = table[i].description

RunComplete == pc = "done" => Len(results) = Len(table)

\* the classification of the current row raised
RowRaised == cur.primary.raised \/ cur.fallback.raised

RowAppended ==
    pc = "append" =>
        /\ results' = Append(results, cur.row_result)
        /\ pc' = IF Len(results') = Len(table) THEN "done" ELSE "progress"
        /\ cur.row_result.classification_status = IF RowRaised THEN "Failed" ELSE "Success"

\* C16: n rows in, n rows out in order; Failed exactly for the rows that raised
C16_RowFailureIsolation == [][RowsInOrder' /\ RunComplete' /\ RowAppended]_vars

C16_Witness ==
    /\ pc = "done" /\ Len(table) = 2 /\ Len(results) = 2
    /\ results[1].classification_status = "Failed"
    /\ results[1].product_name = table[1].product_name
    /\ results[2].classification_status = "Success"
    /\ results[2].product_name = table[2].product_name

(***************************************************************************)
(* C17: an output row is Failed only if its classification raised or its   *)
(* required fields could not be recovered; every other row is Success,     *)
(* whatever its confidence.                                                *)
(***************************************************************************)
\* neither a product name nor a description in the input row
Unrecoverable(row) == row.product_name = "" /\ row.description = ""

\* C17: the status of the row that is about to be appended
C17_RowStatusRule ==
    pc = "append" =>
        /\ cur.row_result.classification_status \in {"Success", "Failed"}
        /\ cur.row_result.classification_status = "Failed" =>
              RowRaised \/ Unrecoverable(table[idx])
        /\ ~RowRaised /\ ~Unrecoverable(table[idx]) =>
              cur.row_result.classification_status = "Success"

\* a row that did not raise is Success with confidence 0
C17_Witness ==
    /\ pc = "append" /\ ~RowRaised /\ ~Unrecoverable(table[idx])
    /\ cur.row_result.classification_status = "Success"
    /\ _parse_confidence(cur.row_result.confidence) = Whole(0)

(***************************************************************************)
(* C18: an exception raised by the duty calculation of a batch row.        *)
(***************************************************************************)
\* the duty rate handed to the row's duty calculation (line 245)
RowDutyRate ==
    IF cur.classification.duty_rate = Absent THEN Str(T0pct) ELSE cur.classification.duty_rate

\* the duty calculation of the current row is about to raise
DutyRaises ==
    /\ pc = "duty"
    /\ DLt(Whole(0), row_customs_value(cur.row_result))
    /\ parse_duty_rate(RowDutyRate).raised

\* C18 as claimed: the exception is caught, the row is recorded Failed with the
\* error text in its reasoning, and the batch continues
C18_DutyFailureFailsRow ==
    [][DutyRaises =>
          /\ pc' = "append"
          /\ cur'.row_result.classification_status = "Failed"
          /\ cur'.row_result.reasoning = <<"Classification error: ", ErrLower>>]_vars

\* C18 amended: the exception is caught for the row; the row keeps status
\* Success and the classification already recorded, the error text goes to
\* duty_calc_error, the duty amounts and the customs value are 0, no
\* breakdown enters the calculator's history, and the batch continues
C18_DutyFailureRecorded ==
    [][DutyRaises =>
          /\ pc' = "append"
          /\ cur'.row_result.classification_status = "Success"
          /\ cur'.row_result.hs_code = cur.row_result.hs_code
          /\ cur'.row_result.reasoning = cur.row_result.reasoning
          /\ cur'.row_result.duty.duty_calc_error = ErrLower
          /\ cur'.row_result.duty = [ZeroDuty EXCEPT !.duty_calc_error = ErrLower]
          /\ cur'.row_result.customs_value = NumCell(Whole(0))
          /\ calculation_history' = calculation_history]_vars

\* a finished run whose first row had a failing duty calculation
C18_Witness ==
    /\ pc = "done" /\ Len(results) = 2
    /\ results[1].duty.duty_calc_error = ErrLower
    /\ results[1].classification_status = "Success"

(***************************************************************************)
(* C19: a batch row whose primary result is unusable and whose fallback    *)
(* fails as well.                                                          *)
(***************************************************************************)
\* the primary confidence routed the current row to the fallback and the
\* fallback's model call raised or answered without a JSON object
DoubleFailure ==
    /\ cur.fallback_calls = 1
    /\ ~cur.primary.raised
    /\ DLt(cur.confidence, Whole(50))
    /\ cur.response.kind \in {"raise", "no_json", "bad_json"}

RowsStarted ==
    CASE pc \in {"idle", "uploaded", "shown"} -> 0
      [] pc = "progress" -> idx - 1
      [] pc = "done" -> Len(table)
      [] OTHER -> idx

\* the i-th call of the progress callback
ProgressCall(i) ==
    /\ progressLog[i].current = i
    /\ progressLog[i].total = Len(table)
    /\ Len(progressLog[i].label) <= 50
    /\ progressLog[i].label = table[i].product_name
          \/ /\ Len(table[i].product_name) > 50
             /\ progressLog[i].label = SubSeq(table[i].product_name, 1, 50)

\* C20: the progress callback is invoked once per row, before the row's
\* classification starts, with the positions 1, 2, ..., n in that order, the
\* total n and a label of at most 50 characters; n times in a whole run
C20_ProgressReporting ==
    /\ Len(progressLog) = RowsStarted
    /\ \A i \in 1..Len(progressLog) : ProgressCall(i)
    /\ pc = "classify" =>
          /\ Len(progressLog) = idx /\ Len(results) = idx - 1
          /\ cur.primary = NotCalled /\ cur.fallback_calls = 0

\* a finished two-row run whose second product name is longer than the label
C20_Witness ==
    /\ pc = "done" /\ Len(table) = 2 /\ Len(progressLog) = 2
    /\ Len(table[2].product_name) > 50
    /\ Len(progressLog[2].label) = 50
    /\ progressLog[1].label = table[1].product_name

(***************************************************************************)
(* C21: the batch is strictly sequential.                                  *)
(***************************************************************************)
\* while a collaborator of row idx is at work the rows before it, and only
\* they, are in the output
PreviousRowsRecorded ==
    pc \in {"classify", "fallback", "record", "duty", "append"} =>
        /\ Len(results) = idx - 1
        /\ \A j \in 1..Len(results) : results[j].product_name = table[j].product_name

\* the output changes only by the append of the current row, once per row
SingleWriter ==
    results' # results =>
        /\ pc = "append" /\ pc' # "append"
        /\ results' = Append(results, cur.row_result)
        /\ Len(results') = idx
        /\ cur.row_result.product_name = table[idx].product_name

\* C21: no row's classification, fallback or duty calculation begins before
\* the previous row is in the output; each row is appended exactly once by
\* the loop and nothing else writes the output; the run ends with n rows
C21_StrictlySequential ==
    /\ [](PreviousRowsRecorded /\ (pc = "done" => Len(results) = Len(table)))
    /\ [][SingleWriter]_vars
    /\ [](pc # "idle" => <>(pc = "done" /\ Len(results) = Len(table)))

\* the second row of a run is being classified with the first one recorded
C21_Witness ==
    /\ pc = "fallback" /\ idx = 2 /\ Len(table) = 2
    /\ Len(results) = 1
    /\ results[1].classification_status = "Success"

(***************************************************************************)
(* C22: the schema mapping drops no raw data.                              *)
(***************************************************************************)
\* the canonical field that the mapping report names for a raw column ("": none)
ReportedField(m, name) ==
    IF \E k \in 1..Len(m.detected_mappings) : m.detected_mappings[k].column = name
    THEN m.detected_mappings[CHOOSE k \in 1..Len(m.detected_mappings) :
                                m.detected_mappings[k].column = name].field
    ELSE ""

\* the values of raw column c are in the output under the given name
CarriedAs(m, c, name) ==
    \E i \in 1..Len(m.columns) : m.columns[i].name = name /\ m.columns[i].cells = c.cells

\* C22: after a mapping every raw column that no canonical field consumed is
\* in the output with its values unchanged, and every consumed raw column's
\* values are under the canonical field that the mapping report names for it
C22_NoRawDataDropped ==
    (mapPc = "mapped" /\ ~standardized.raised) =>
        \A i \in 1..Len(df) :
            IF ReportedField(standardized, df[i].name) = ""
            THEN CarriedAs(standardized, df[i], normalize_column(df[i].name))
            ELSE CarriedAs(standardized, df[i], ReportedField(standardized, df[i].name))

(***************************************************************************)
(* C23: the mapped product name is never empty.                            *)
(***************************************************************************)
\* a cell that holds a non-empty text
NonEmptyText(cell) == cell.kind = "str" /\ cell.v # ""

\* C23: after a mapping every row of the output table has a non-empty
\* product_name (from the matched column, else the first text column, else
\* "Product_1", "Product_2", ...), also where the source cell is blank
C23_ProductNameNeverEmpty ==
    (mapPc = "mapped" /\ ~standardized.raised) =>
        /\ has_column(standardized.columns, "product_name")
        /\ \A r \in 1..MapRows :
              NonEmptyText(column_of(standardized.columns, "product_name").cells[r])

(***************************************************************************)
(* C28: column matching is one-to-one.                                     *)
(***************************************************************************)
\* the raw columns that the report gives to the fields before the k-th one
TakenBefore(m, k) ==
    {m.detected_mappings[p].column : p \in {q \in 1..Len(m.detected_mappings) :
        \E j \in 1..(k - 1) : column_patterns[j].field = m.detected_mappings[q].field}}

\* the positions of the raw columns that the k-th field may take; names
\* holds the normalized column names
Candidates(raw, names, m, k) ==
    {i \in 1..Len(raw) :
        /\ raw[i].name \notin TakenBefore(m, k)
        /\ \E p \in 1..Len(column_patterns[k].patterns) :
              re_match(column_patterns[k].patterns[p], names[i])}

\* the report's pairs for the k-th field
PairsOf(m, k) ==
    {q \in 1..Len(m.detected_mappings) :
        m.detected_mappings[q].field = column_patterns[k].field}

OneToOne(raw, m) ==
    /\ \A p, q \in 1..Len(m.detected_mappings) :
          p # q => /\ m.detected_mappings[p].field # m.detected_mappings[q].field
                   /\ m.detected_mappings[p].column # m.detected_mappings[q].column
    /\ \A k \in 1..Len(column_patterns) :
          LET candidates == Candidates(raw, [i \in 1..Len(raw) |-> normalize_column(raw[i].name)],
                                       m, k)
              pairs == PairsOf(m, k)
          IN  IF candidates = {} THEN pairs = {}
              ELSE \E q \in pairs :
                      /\ pairs = {q}
                      /\ \E i \in candidates :
                            /\ \A j \in candidates : i <= j
                            /\ m.detected_mappings[q].column = raw[i].name
    /\ m.columns_mapped =
          {normalize_column(m.detected_mappings[q].column) : q \in 1..Len(m.detected_mappings)}

\* C28: each canonical field takes at most one raw column, the first one in
\* column order that matches and is not yet consumed; each raw column is
\* consumed by at most one field; the report lists exactly the consumed pairs
C28_OneToOneMatching ==
    (mapPc = "mapped" /\ ~standardized.raised) => OneToOne(df, standardized)

\* 'Amount' matches a pattern of quantity and one of customs_value: quantity
\* takes it, customs_value gets nothing
C28_Witness ==
    /\ mapPc = "mapped" /\ ~standardized.raised
    /\ \E q \in 1..Len(standardized.detected_mappings) :
          standardized.detected_mappings[q] = [field |-> "quantity", column |-> "Amount"]
    /\ \A q \in 1..Len(standardized.detected_mappings) :
          standardized.detected_mappings[q].field # "customs_value"
    /\ Len(standardized.detected_mappings) >= 2

(***************************************************************************)
(* C30: mapping the table again after validation changes nothing.          *)
(***************************************************************************)
CanonicalFields == {column_patterns[k].field : k \in 1..Len(column_patterns)}

\* C30: for every table that validation accepted, the mapping of the batch
\* run, which maps the table that validation wrote to, completes without
\* error and gives every canonical field the values of the first mapping
C30_MappingIdempotent ==
    mapPc = "remapped" =>
        /\ ~standardized.raised
        /\ \A f \in CanonicalFields :
              /\ has_column(standardized.columns, f)
              /\ column_of(standardized.columns, f).cells
                    = column_of(validated.columns, f).cells

\* the filter of the summary as the specification words it
Positive(d) == DLt(Whole(0), d)
PassesFilter(row) ==
    /\ row.classification_status = "Success"
    /\ row.customs_value.kind = "num" /\ Positive(row.customs_value.n)
FilteredRows == SelectSeq(results, PassesFilter)
SummaryReturned == pc = "summarized" /\ summary.done /\ ~summary.raised

RECURSIVE SumOver(_, _, _)
SumOver(rows, field, i) ==
    IF i > Len(rows) THEN Whole(0) ELSE DAdd(amount(rows[i], field), SumOver(rows, field, i + 1))

Aggregates ==
    {"total_customs_value", "total_base_duty", "total_mpf", "total_hmf", "total_duties",
     "total_landed_cost", "average_effective_rate", "products_with_duties",
     "products_duty_free"}

\* C25: when no row passes the filter the summary returns without raising
\* and every aggregate (the six totals, the average effective rate and both
\* counts) is present with value 0
C25_EmptySummary ==
    (pc = "summarized" /\ FilteredRows = <<>>) =>
        /\ summary.done /\ ~summary.raised
        /\ Aggregates \subseteq summary.keys
        /\ \A f \in {"total_customs_value", "total_base_duty", "total_mpf", "total_hmf",
                     "total_duties", "total_landed_cost"} : summary[f] = Whole(0)
        /\ summary.average_effective_rate = RatioZero
        /\ summary.products_with_duties = 0 /\ summary.products_duty_free = 0

\* the uploaded table carries data for the origin field
OriginData ==
    \E i \in 1..Len(df) :
        /\ normalize_column(df[i].name) = "origin"
        /\ \E r \in 1..Len(df[i].cells) : df[i].cells[r].kind # "nan"

\* C26: when the uploaded table carried no data for the origin field, the
\* summary of the mapped and processed table has no rollup by origin
C26_RollupOmitted ==
    (SummaryReturned /\ ~OriginData) => "duty_by_country" \notin summary.keys

\* the sources of a row's customs value in the order of the specification:
\* the customs_value cell, quantity * unit_value, then the other columns
\* whose name contains 'total' or 'value'
Sources(row) ==
    <<value_step1(row),
      value_product(cell_or(row.quantity, Whole(1)), cell_or(row.unit_value, Whole(0)),
                    Whole(0)),
      scan_column(row.unit_value, Whole(0))>>
FirstPositive(values) ==
    IF \E i \in 1..Len(values) : Positive(values[i])
    THEN values[CHOOSE i \in 1..Len(values) :
                    Positive(values[i]) /\ \A j \in 1..(i - 1) : ~Positive(values[j])]
    ELSE Whole(0)

\* C27: the customs value of a batch row is the first positive number among
\* its sources in that order; the fee calculation runs only with a value
\* above zero; without a positive source all duty fields are present and zero
C27_CustomsValueLookup ==
    (page = "batch" /\ pc = "append" /\ cur.row_result.duty.has_duty) =>
        /\ cur.row_result.duty.called => Positive(cur.row_result.customs_value.n)
        /\ cur.row_result.duty.duty_calc_error = "" =>
               cur.row_result.customs_value = NumCell(FirstPositive(Sources(table[idx])))
        /\ ~Positive(FirstPositive(Sources(table[idx]))) =>
               /\ cur.row_result.customs_value = NumCell(Whole(0))
               /\ cur.row_result.duty = ZeroDuty

RECURSIVE SumValues(_, _)
SumValues(f, keys) ==
    IF keys = {} THEN Whole(0)
    ELSE DAdd(f[CHOOSE k \in keys : TRUE],
              SumValues(f, keys \ {CHOOSE k \in keys : TRUE}))
RECURSIVE SumCounts(_, _)
SumCounts(f, keys) ==
    IF keys = {} THEN 0
    ELSE f[CHOOSE k \in keys : TRUE] + SumCounts(f, keys \ {CHOOSE k \in keys : TRUE})
Partitions(r) ==
    /\ SumValues(r.customs_value, DOMAIN r.customs_value) = summary.total_customs_value
    /\ SumValues(r.total_duties, DOMAIN r.total_duties) = summary.total_duties
    /\ SumCounts(r.product_name, DOMAIN r.product_name) = Len(FilteredRows)

\* C29: in a summary with a rollup by origin or by code, the group sums of
\* customs value and of total fees add up to the summary's totals and the
\* group counts add up to the number of filtered rows
C29_RollupsPartition ==
    SummaryReturned =>
        /\ "duty_by_country" \in summary.keys => Partitions(summary.duty_by_country)
        /\ "duty_by_hs_code" \in summary.keys => Partitions(summary.duty_by_hs_code)

====
